---- MODULE Spec2Model ----
(***************************************************************************)
(* Learn-Cantonese backend: the pronunciation scorer                       *)
(* (calculatePronunciationScore), the evaluation endpoint that calls it,   *)
(* and the stores of a server started without DATABASE_URL (pool = null).  *)
(*                                                                         *)
(* Texts are sequences of UTF-16 code units (integers); numbers that the   *)
(* code holds as floating point are exact rationals <<numerator,           *)
(* denominator>> with a positive denominator, kept in lowest terms.        *)
(***************************************************************************)
EXTENDS Integers, Sequences, FiniteSets, TLC

VARIABLES
  \* the arguments and the result of the last call of
  \* calculatePronunciationScore
  originalText, userText, confidence, report,
  \* POST /api/evaluate: the request waiting for the recognizer, and the
  \* last response sent
  pending, response,
  \* the first report returned for each argument triple, with the times of
  \* the first and of the last call that had these arguments (history of
  \* the calls, not state of the program)
  firstReport,
  \* the Maps of the in-memory storage
  userRecords, shareRecords, userStats, userAchievements, userProfiles,
  \* Date.now(), the number of ids generateId has produced, and the
  \* number of requests received
  now, idsGenerated, requests,
  \* one request followed through its handler: its input, the position of
  \* the handler, the calls it made and its response
  http,
  \* whether DATABASE_URL gave a connection pool, and the tables behind it
  pool, db,
  \* per user, the level of the last PUT /api/user/profile answered 200
  levelSet

scorerVars == <<originalText, userText, confidence, report>>
evaluateVars == <<pending, response, firstReport>>
counterVars == <<now, idsGenerated, requests>>
handlerVars == <<http>>
auxVars == <<pool, db, levelSet>>
storeVars ==
  <<userRecords, shareRecords, userStats, userAchievements, userProfiles>>
vars ==
  <<originalText, userText, confidence, report, pending, response,
    firstReport, userRecords, shareRecords, userStats, userAchievements,
    userProfiles, now, idsGenerated, requests, http, pool, db, levelSet>>

\* ------------------------------------------------------------------------
\* Bounds of the model
\* ------------------------------------------------------------------------
\* longest text drawn from Alphabet
MaxLen == 2
\* confidences are the multiples of 1/ConfDen from -1/2 to 3/2
ConfDen == 10
\* the clock, in days, visits the days 0..MaxTime and the day that is one
\* share lifetime after the last of them
MaxTime == 1
\* the server receives at most MaxRequests requests
MaxRequests == 3

\* ------------------------------------------------------------------------
\* Exact arithmetic on the numbers of the scorer.  On the inputs of this
\* model (texts of at most 4 kept characters, confidences that are
\* multiples of 1/10, 1/11 or 1/20) the IEEE doubles of the code round to
\* the same integers as the exact values.
\* ------------------------------------------------------------------------
Abs(n) == IF n < 0 THEN -n ELSE n

RECURSIVE GCD(_, _)
GCD(a, b) == IF b = 0 THEN a ELSE GCD(b, a % b)

\* the rational n/d (d > 0) in lowest terms
Rat(n, d) ==
  LET g == GCD(Abs(n), d) IN <<n \div g, d \div g>>

RInt(n) == <<n, 1>>
RAdd(a, b) == Rat(a[1] * b[2] + b[1] * a[2], a[2] * b[2])
RSub(a, b) == Rat(a[1] * b[2] - b[1] * a[2], a[2] * b[2])
RMul(a, b) == Rat(a[1] * b[1], a[2] * b[2])
RLeq(a, b) == a[1] * b[2] <= b[1] * a[2]
RMin(a, b) == IF RLeq(a, b) THEN a ELSE b
RMax(a, b) == IF RLeq(a, b) THEN b ELSE a

IMin(a, b) == IF a <= b THEN a ELSE b
IMax(a, b) == IF a <= b THEN b ELSE a

\* Math.round: the nearest integer, an exact half going to the larger one
MathRoundDown(a) == a[1] \div a[2]
MathRound(a) == (2 * a[1] + a[2]) \div (2 * a[2])

\* ------------------------------------------------------------------------
\* normalize: text.toLowerCase().replace(/[^\u4e00-\u9fa5a-z0-9]/g, '')
\* ------------------------------------------------------------------------
\* String.prototype.toLowerCase on one code unit: A-Z map to a-z, U+0130
\* maps to "i" followed by U+0307, U+212A (Kelvin sign) maps to "k"
LowerCaseOf(c) ==
  IF c \in 65..90 THEN <<c + 32>>
  ELSE IF c = 304 THEN <<105, 775>>
  ELSE IF c = 8490 THEN <<107>>
  ELSE <<c>>

RECURSIVE toLowerCase(_)
toLowerCase(text) ==
  IF text = <<>> THEN <<>>
  ELSE LowerCaseOf(Head(text)) \o toLowerCase(Tail(text))

\* the character class without its digits
IsKeptNoDigits(c) == c \in 19968..40869 \/ c \in 97..122
\* the characters the regular expression keeps
IsKept(c) == c \in 19968..40869 \/ c \in 97..122 \/ c \in 48..57

\* the same replacement without the g flag removes one character only
RECURSIVE RemoveFirstNotKept(_)
RemoveFirstNotKept(text) ==
  IF text = <<>> THEN <<>>
  ELSE IF IsKept(Head(text))
       THEN <<Head(text)>> \o RemoveFirstNotKept(Tail(text))
       ELSE Tail(text)
NormalizeFirstOnly(text) == RemoveFirstNotKept(toLowerCase(text))
normalize(text) == SelectSeq(toLowerCase(text), IsKept)

\* ------------------------------------------------------------------------
\* new Levenshtein(a, b).distance
\* ------------------------------------------------------------------------
Min3(a, b, c) == IMin(a, IMin(b, c))

\* one row of the distance matrix from the row before it
RECURSIVE LevenshteinRow(_, _, _, _, _)
LevenshteinRow(prev, ch, b, row, substitution) ==
  IF Len(row) = Len(b) + 1 THEN row
  ELSE LET j == Len(row)
       IN  LevenshteinRow(prev, ch, b,
             Append(row,
                    Min3(prev[j + 1] + 1,
                         row[j] + 1,
                         prev[j] + (IF ch = b[j] THEN 0 ELSE substitution))),
             substitution)

RECURSIVE LevenshteinRows(_, _, _, _, _)
LevenshteinRows(a, b, i, prev, substitution) ==
  IF i > Len(a) THEN prev
  ELSE LevenshteinRows(a, b, i + 1,
         LevenshteinRow(prev, a[i], b, <<prev[1] + 1>>, substitution),
         substitution)

\* a distance that counts a substitution as a deletion and an insertion
LevenshteinNoSubst(a, b) ==
  LevenshteinRows(a, b, 1, [j \in 1..(Len(b) + 1) |-> j - 1], 2)[Len(b) + 1]

Levenshtein(a, b) ==
  LevenshteinRows(a, b, 1, [j \in 1..(Len(b) + 1) |-> j - 1], 1)[Len(b) + 1]

\* ------------------------------------------------------------------------
\* calculatePronunciationScore
\* ------------------------------------------------------------------------
\* the same score with a confidence that decays with the clock
calculatePronunciationScoreByClock(original, user, conf) ==
  LET normalizedOriginal == SelectSeq(toLowerCase(original), IsKept)
      normalizedUser == SelectSeq(toLowerCase(user), IsKept)
      distance ==
        LevenshteinRows(normalizedOriginal, normalizedUser, 1,
                        [j \in 1..(Len(normalizedUser) + 1) |-> j - 1],
                        1)[Len(normalizedUser) + 1]
      maxLen == IF IMax(Len(normalizedOriginal), Len(normalizedUser)) = 0
                THEN 1
                ELSE IMax(Len(normalizedOriginal), Len(normalizedUser))
      similarityScore == Rat(100 * (maxLen - distance), maxLen)
      confidenceScore == RSub(RMul(conf, RInt(100)), RInt(now))
      tone == RMin(RInt(100),
                   RMax(RInt(60),
                        RAdd(RMul(similarityScore, <<9, 10>>),
                             RMul(confidenceScore, <<1, 10>>))))
      score == MathRound(RAdd(RAdd(RMul(similarityScore, <<6, 10>>),
                                   RMul(confidenceScore, <<25, 100>>)),
                              RMul(tone, <<15, 100>>)))
  IN  [score |-> IMax(0, IMin(100, score)),
       accuracy |-> IF score >= 90 THEN "Excellent"
                    ELSE IF score >= 75 THEN "Good"
                    ELSE IF score >= 60 THEN "Fair" ELSE "Poor",
       fluency |-> IMin(100,
                        MathRound(RAdd(RMul(RAdd(RMul(RInt(score), <<7, 10>>),
                                                 RMul(confidenceScore,
                                                      <<3, 10>>)),
                                            <<95, 100>>),
                                       RInt(5)))),
       toneAccuracy |-> MathRound(tone),
       similarity |-> MathRound(similarityScore),
       confidence |-> MathRound(confidenceScore),
       encouragement |-> [title |-> "", message |-> ""]]

\* Math.max(normalizedOriginal.length, normalizedUser.length) || 1
MaxLenOf(a, b) ==
  LET m == IMax(Len(a), Len(b)) IN IF m = 0 THEN 1 ELSE m

\* similarity = 1 - (distance / maxLen)
SimilarityEmptyIsZero(a, b) ==
  IF IMax(Len(a), Len(b)) = 0 THEN RInt(0)
  ELSE RSub(RInt(1), Rat(Levenshtein(a, b), MaxLenOf(a, b)))
Similarity(a, b) ==
  RSub(RInt(1), Rat(Levenshtein(a, b), MaxLenOf(a, b)))

\* Math.min(100, Math.max(60, similarityScore * 0.9 + confidenceScore * 0.1))
ToneAccuracyNoFloor(similarityScore, confidenceScore) ==
  RMin(RInt(100),
       RAdd(RMul(similarityScore, <<9, 10>>),
            RMul(confidenceScore, <<1, 10>>)))
ToneAccuracy(similarityScore, confidenceScore) ==
  RMin(RInt(100),
       RMax(RInt(60),
            RAdd(RMul(similarityScore, <<9, 10>>),
                 RMul(confidenceScore, <<1, 10>>))))

\* the score with the weight of the confidence taken off instead of added
CompositeScoreMinus(similarityScore, confidenceScore, toneAccuracy) ==
  MathRound(RAdd(RSub(RMul(similarityScore, <<6, 10>>),
                      RMul(confidenceScore, <<25, 100>>)),
                 RMul(toneAccuracy, <<15, 100>>)))
\* Math.round(similarityScore * 0.6 + confidenceScore * 0.25
\*            + toneAccuracy * 0.15)
CompositeScoreTrunc(similarityScore, confidenceScore, toneAccuracy) ==
  MathRoundDown(RAdd(RAdd(RMul(similarityScore, <<6, 10>>),
                          RMul(confidenceScore, <<25, 100>>)),
                     RMul(toneAccuracy, <<15, 100>>)))
CompositeScore(similarityScore, confidenceScore, toneAccuracy) ==
  MathRound(RAdd(RAdd(RMul(similarityScore, <<6, 10>>),
                      RMul(confidenceScore, <<25, 100>>)),
                 RMul(toneAccuracy, <<15, 100>>)))

\* the accuracy level ladder
AccuracyLevelShifted(score) ==
  IF score >= 90 THEN "Excellent"
  ELSE IF score >= 80 THEN "Good"
  ELSE IF score >= 60 THEN "Fair"
  ELSE "Poor"
AccuracyLevel(score) ==
  IF score >= 90 THEN "Excellent"
  ELSE IF score >= 75 THEN "Good"
  ELSE IF score >= 60 THEN "Fair"
  ELSE "Poor"

\* Math.min(100, Math.round((score * 0.7 + confidenceScore * 0.3) * 0.95 + 5))
FluencyNoOffset(score, confidenceScore) ==
  IMin(100,
       MathRound(RMul(RAdd(RMul(RInt(score), <<7, 10>>),
                           RMul(confidenceScore, <<3, 10>>)),
                      <<95, 100>>)))
Fluency(score, confidenceScore) ==
  IMin(100,
       MathRound(RAdd(RMul(RAdd(RMul(RInt(score), <<7, 10>>),
                                RMul(confidenceScore, <<3, 10>>)),
                           <<95, 100>>),
                      RInt(5))))

\* The encouragement ladder.  The Chinese strings of the source are written
\* here by their romanisation and their bracketed Mandarin gloss:
\*   "hou2 sai1 lei6! (tai bang le)"       line 1273, message line 1274
\*   "m4 co3 wo3! (hen hao)"               line 1276, message line 1277
\*   "gwo3 dak1 heoi3! (hai ke yi)"        line 1279, message line 1280
\*   "gai3 zuk6 nou5 lik6! (zai nu li)"    line 1282, message line 1283
\*   "cung4 san1 lei4 gwo3! (zai shi shi)" line 1285, message line 1286
EncouragementByTier(score) ==
  IF score >= 90 THEN
    [title |-> "hou2 sai1 lei6! (tai bang le)",
     message |-> "fa yin fei chang zi ran, ji xu bao chi."]
  ELSE IF score >= 75 THEN
    [title |-> "m4 co3 wo3! (hen hao)",
     message |-> "fa yin hen biao zhun, zai jie zai li!"]
  ELSE IF score >= 70 THEN
    [title |-> "gwo3 dak1 heoi3! (hai ke yi)",
     message |-> "you xie di fang xu yao lian xi, jia you!"]
  ELSE IF score >= 60 THEN
    [title |-> "gai3 zuk6 nou5 lik6! (zai nu li)",
     message |-> "duo ting duo shuo, yi ding hui you jin bu!"]
  ELSE
    [title |-> "cung4 san1 lei4 gwo3! (zai shi shi)",
     message |-> "bu yao qi nei, duo lian xi ji ci!"]
Encouragement(score) ==
  IF score >= 90 THEN
    [title |-> "hou2 sai1 lei6! (tai bang le)",
     message |-> "fa yin fei chang zi ran, ji xu bao chi."]
  ELSE IF score >= 80 THEN
    [title |-> "m4 co3 wo3! (hen hao)",
     message |-> "fa yin hen biao zhun, zai jie zai li!"]
  ELSE IF score >= 70 THEN
    [title |-> "gwo3 dak1 heoi3! (hai ke yi)",
     message |-> "you xie di fang xu yao lian xi, jia you!"]
  ELSE IF score >= 60 THEN
    [title |-> "gai3 zuk6 nou5 lik6! (zai nu li)",
     message |-> "duo ting duo shuo, yi ding hui you jin bu!"]
  ELSE
    [title |-> "cung4 san1 lei4 gwo3! (zai shi shi)",
     message |-> "bu yao qi nei, duo lian xi ji ci!"]

calculatePronunciationScore(original, user, conf) ==
  LET normalizedOriginal == normalize(original)
      normalizedUser == normalize(user)
      similarity == Similarity(normalizedOriginal, normalizedUser)
      similarityScore == RMul(similarity, RInt(100))
      confidenceScore == RMul(conf, RInt(100))
      toneAccuracy == ToneAccuracy(similarityScore, confidenceScore)
      score == CompositeScore(similarityScore, confidenceScore, toneAccuracy)
  IN  [score |-> IMax(0, IMin(100, score)),
       accuracy |-> AccuracyLevel(score),
       fluency |-> Fluency(score, confidenceScore),
       toneAccuracy |-> MathRound(toneAccuracy),
       similarity |-> MathRound(RMul(similarity, RInt(100))),
       confidence |-> MathRound(RMul(conf, RInt(100))),
       encouragement |-> Encouragement(score)]

\* ------------------------------------------------------------------------
\* The inputs of the scorer
\* ------------------------------------------------------------------------
\* "A", "!" and U+4F60
Alphabet == {65, 33, 20320}

BoundedTexts == UNION {[1..k -> Alphabet] : k \in 0..MaxLen}

\* the texts of the documented scenarios, and texts whose similarity is a
\* third or two thirds
Text_NiHao == <<20320, 22909>>
Text_WoXiangSikFaan == <<25105, 24819, 39135, 39277>>
Text_WoXiangSikMin == <<25105, 24819, 39135, 38754>>
Text_Abc1 == <<65, 98, 67, 32, 49>>
Text_Ab == <<97, 33, 98>>
Text_Kelvin == <<8490, 304, 40869, 40870>>
Text_UpperLower == <<65, 97>>
Text_LowerUpper == <<97, 65>>

ScenarioPairs ==
  { <<Text_NiHao, <<>>>>,
    <<Text_WoXiangSikFaan, Text_WoXiangSikMin>>,
    <<Text_WoXiangSikFaan, Text_WoXiangSikFaan>>,
    <<Text_Abc1, Text_Ab>>,
    <<Text_Abc1, Text_NiHao>>,
    <<Text_Ab, Text_Abc1>>,
    <<Text_Kelvin, Text_Ab>>,
    <<Text_Kelvin, Text_Kelvin>>,
    <<Text_UpperLower, Text_LowerUpper>> }

TextPairs == (BoundedTexts \X BoundedTexts) \cup ScenarioPairs

\* every confidence of the grid, from -1/2 to 3/2
Confidences ==
  {Rat(k, ConfDen) : k \in (-(ConfDen \div 2))..(ConfDen + ConfDen \div 2)}

InUnitInterval(c) == RLeq(RInt(0), c) /\ RLeq(c, RInt(1))

NoReport == [score |-> -1000]

\* ------------------------------------------------------------------------
\* The in-memory storage
\* ------------------------------------------------------------------------
Users == {"u1", "u2"}

\* a Map is a function on the set of its keys
EmptyMap == <<>>
MapSet(m, k, v) == [x \in DOMAIN m \cup {k} |-> IF x = k THEN v ELSE m[x]]
MapDelete(m, k) == [x \in DOMAIN m \ {k} |-> m[x]]

Range(seq) == {seq[i] : i \in DOMAIN seq}

\* records.length > 100 drops the oldest record
MaxRecordsPerUser == 100
\* the 30 days of a share link: 30 * 24 * 60 * 60 * 1000 ms
ShareLifetime == 30

\* saveRecord: unshift the new record, pop the oldest beyond 100
saveRecord(userId) ==
  /\ requests < MaxRequests
  /\ requests' = requests + 1
  /\ idsGenerated' = idsGenerated + 1
  /\ LET record == [id |-> idsGenerated + 1, userId |-> userId,
                    timestamp |-> now]
         old == IF userId \in DOMAIN userRecords
                THEN userRecords[userId] ELSE <<>>
         records == <<record>> \o old
     IN  userRecords' =
           MapSet(userRecords, userId,
                  IF Len(records) > MaxRecordsPerUser
                  THEN SubSeq(records, 1, Len(records) - 1)
                  ELSE records)
  /\ UNCHANGED <<shareRecords, userStats, userAchievements, userProfiles,
                 now, scorerVars, evaluateVars, handlerVars, auxVars>>

\* deleteRecord: splice the record out of the user's own list
deleteRecord(userId, recordId) ==
  /\ requests < MaxRequests
  /\ requests' = requests + 1
  /\ IF userId \in DOMAIN userRecords
        /\ \E r \in Range(userRecords[userId]) : r.id = recordId
     THEN userRecords' =
            MapSet(userRecords, userId,
                   SelectSeq(userRecords[userId],
                             LAMBDA r : r.id # recordId))
     ELSE UNCHANGED userRecords
  /\ UNCHANGED <<shareRecords, userStats, userAchievements, userProfiles,
                 now, idsGenerated, scorerVars, evaluateVars,
                 handlerVars, auxVars>>

\* createShareRecord: the share id is the head of a fresh id
createShareRecord ==
  /\ requests < MaxRequests
  /\ requests' = requests + 1
  /\ idsGenerated' = idsGenerated + 1
  /\ shareRecords' =
       MapSet(shareRecords, idsGenerated + 1,
              [shareId |-> idsGenerated + 1, createdAt |-> now,
               expiresAt |-> now + ShareLifetime])
  /\ UNCHANGED <<userRecords, userStats, userAchievements, userProfiles,
                 now, scorerVars, evaluateVars, handlerVars, auxVars>>

\* getShareRecord: an expired record is deleted when it is asked for
getShareRecord(shareId) ==
  /\ requests < MaxRequests
  /\ requests' = requests + 1
  /\ IF shareId \in DOMAIN shareRecords
        /\ shareRecords[shareId].expiresAt < now
     THEN shareRecords' = MapDelete(shareRecords, shareId)
     ELSE UNCHANGED shareRecords
  /\ UNCHANGED <<userRecords, userStats, userAchievements, userProfiles,
                 now, idsGenerated, scorerVars, evaluateVars,
                 handlerVars, auxVars>>

\* the instants the clock shows
Instants == (0..MaxTime) \cup {ShareLifetime + MaxTime}

\* getUserStats: the statistics of a user, created at first use
NewStats ==
  [totalStories |-> 0, practiceCount |-> 0, bestScore |-> 0,
   totalScore |-> 0, totalStudyTime |-> 0, lastUpdated |-> now]
StatsOf(userId) ==
  IF userId \in DOMAIN userStats THEN userStats[userId] ELSE NewStats

\* ACHIEVEMENTS, in the order of the object's keys; ten_stories has no id
AchievementKeys ==
  <<"first_story", "ten_stories", "fifty_stories", "practice_master",
    "perfect_score", "excellent_student">>
AchievementId(key) == IF key = "ten_stories" THEN "undefined" ELSE key
\* the conditions with the ten stories counted from the eleventh
AchievementConditionAfterTen(key, stats) ==
  CASE key = "first_story" -> stats.totalStories >= 1
    [] key = "ten_stories" -> stats.totalStories > 10
    [] key = "fifty_stories" -> stats.totalStories >= 50
    [] key = "practice_master" -> stats.practiceCount >= 100
    [] key = "perfect_score" -> stats.bestScore = 100
    [] key = "excellent_student" ->
         stats.averageScore # 0 /\ stats.averageScore >= 90
AchievementCondition(key, stats) ==
  CASE key = "first_story" -> stats.totalStories >= 1
    [] key = "ten_stories" -> stats.totalStories >= 10
    [] key = "fifty_stories" -> stats.totalStories >= 50
    [] key = "practice_master" -> stats.practiceCount >= 100
    [] key = "perfect_score" -> stats.bestScore = 100
    [] key = "excellent_student" ->
         stats.averageScore # 0 /\ stats.averageScore >= 90

AverageScore(stats) ==
  IF stats.practiceCount > 0
  THEN MathRound(Rat(stats.totalScore, stats.practiceCount))
  ELSE 0

\* checkAndUnlockAchievements: the loop over ACHIEVEMENTS from entry i on
\* (every push reads the clock: at is what it reads)
RECURSIVE UnlockFrom(_, _, _, _)
UnlockFrom(i, unlocked, statsWithAverage, at) ==
  IF i > Len(AchievementKeys) THEN unlocked
  ELSE LET key == AchievementKeys[i]
           found == \E a \in Range(unlocked) : a.id = AchievementId(key)
       IN  UnlockFrom(i + 1,
                      IF ~found /\ AchievementCondition(key, statsWithAverage)
                      THEN Append(unlocked,
                                  [key |-> key, id |-> AchievementId(key),
                                   unlockedAt |-> at])
                      ELSE unlocked,
                      statsWithAverage, at)

checkAndUnlockAchievements(userId, stats, at) ==
  LET unlocked == IF userId \in DOMAIN userAchievements
                  THEN userAchievements[userId] ELSE <<>>
      statsWithAverage ==
        [totalStories |-> stats.totalStories,
         practiceCount |-> stats.practiceCount,
         bestScore |-> stats.bestScore,
         totalScore |-> stats.totalScore,
         totalStudyTime |-> stats.totalStudyTime,
         lastUpdated |-> stats.lastUpdated,
         averageScore |-> AverageScore(stats)]
  IN  MapSet(userAchievements, userId,
             UnlockFrom(1, unlocked, statsWithAverage, at))

\* the data of updateUserStats: score may be absent (undefined)
StatsUpdates ==
  { [isPractice |-> FALSE, practiceTime |-> 1],
    [isPractice |-> TRUE, practiceTime |-> 0],
    [isPractice |-> TRUE, practiceTime |-> 1, score |-> 100] }

\* the statistics with every update counted as a story too
UpdatedStatsCountingStories(userId, data) ==
  LET stats == StatsOf(userId)
      counted ==
        IF data.isPractice
        THEN [stats EXCEPT
                !.totalStories = @ + 1,
                !.practiceCount = @ + 1,
                !.totalScore =
                  IF "score" \in DOMAIN data THEN @ + data.score ELSE @,
                !.bestScore =
                  IF "score" \in DOMAIN data THEN IMax(@, data.score) ELSE @]
        ELSE [stats EXCEPT !.totalStories = @ + 1]
  IN  [counted EXCEPT
         !.totalStudyTime =
           IF data.practiceTime # 0 THEN @ + data.practiceTime ELSE @,
         !.lastUpdated = now]
\* the statistics as updateUserStats leaves them, lastUpdated read from the
\* clock before the achievements are checked
UpdatedStats(userId, data) ==
  LET stats == StatsOf(userId)
      counted ==
        IF data.isPractice
        THEN [stats EXCEPT
                !.practiceCount = @ + 1,
                !.totalScore =
                  IF "score" \in DOMAIN data THEN @ + data.score ELSE @,
                !.bestScore =
                  IF "score" \in DOMAIN data THEN IMax(@, data.score) ELSE @]
        ELSE [stats EXCEPT !.totalStories = @ + 1]
  IN  [counted EXCEPT
         !.totalStudyTime =
           IF data.practiceTime # 0 THEN @ + data.practiceTime ELSE @,
         !.lastUpdated = now]

\* what the clock reads later in the same call: the same instant or the
\* next one
ClockReads ==
  {instant \in Instants :
     /\ instant >= now
     /\ \A between \in Instants : ~(now < between /\ between < instant)}

updateUserStats(userId, data) ==
  \E unlockedAt \in ClockReads :
      /\ requests < MaxRequests
      /\ requests' = requests + 1
      /\ userStats' = MapSet(userStats, userId, UpdatedStats(userId, data))
      /\ userAchievements' =
           checkAndUnlockAchievements(userId, UpdatedStats(userId, data),
                                      unlockedAt)
      /\ now' = unlockedAt
      /\ UNCHANGED <<userRecords, shareRecords, userProfiles,
                     idsGenerated, scorerVars, evaluateVars,
                     handlerVars, auxVars>>

\* CANTONESE_LEVELS, by the lower-case form of their keys
CantoneseLevels == {"beginner", "intermediate", "advanced"}
RequestedLevels == {"advanced", "native"}

\* the value of a property that may be absent, and JavaScript's a || b on
\* strings
Undefined == "undefined"
Field(rec, name) == IF name \in DOMAIN rec THEN rec[name] ELSE Undefined
OrElse(a, b) == IF a = Undefined \/ a = "" THEN b ELSE a

\* rows[0] of a result without rows
NoRow == [undefined |-> TRUE]
IsUndefined(result) == "undefined" \in DOMAIN result

\* getUserProfile on the tables d (with a pool) or on the map profiles
getUserProfileCall(p, d, profiles, userId) ==
  IF p
  THEN IF userId \in DOMAIN d.user_profiles
       THEN [result |-> d.user_profiles[userId], db |-> d,
             profiles |-> profiles]
       ELSE LET row == [user_id |-> userId, cantonese_level |-> "beginner"]
            IN  [result |-> row,
                 db |-> [d EXCEPT !.user_profiles = MapSet(@, userId, row)],
                 profiles |-> profiles]
  ELSE LET created ==
             IF userId \in DOMAIN profiles THEN profiles
             ELSE MapSet(profiles, userId,
                         [userId |-> userId, cantoneseLevel |-> "beginner"])
       IN  [result |-> created[userId], db |-> d, profiles |-> created]

\* updateUserCantoneseLevel for a valid level: UPDATE ... RETURNING * gives
\* no row for a user without one; the map gets a profile in every case
updateUserCantoneseLevelCall(p, d, profiles, userId, level) ==
  IF p
  THEN IF userId \in DOMAIN d.user_profiles
       THEN LET row == [d.user_profiles[userId]
                          EXCEPT !.cantonese_level = level]
            IN  [result |-> row,
                 db |-> [d EXCEPT !.user_profiles = MapSet(@, userId, row)],
                 profiles |-> profiles]
       ELSE [result |-> NoRow, db |-> d, profiles |-> profiles]
  ELSE LET profile == [userId |-> userId, cantoneseLevel |-> level]
       IN  [result |-> profile, db |-> d,
            profiles |-> MapSet(profiles, userId, profile)]

\* getUserProfile: the profile of a user, created at first use
getUserProfile(userId) ==
  /\ requests < MaxRequests
  /\ requests' = requests + 1
  /\ LET call == getUserProfileCall(pool, db, userProfiles, userId)
     IN  userProfiles' = call.profiles /\ db' = call.db
  /\ UNCHANGED <<userRecords, shareRecords, userStats, userAchievements,
                 now, idsGenerated, scorerVars, evaluateVars,
                 handlerVars, pool, levelSet>>

\* updateUserCantoneseLevel: an unknown level throws before any change
updateUserCantoneseLevel(userId, level) ==
  /\ requests < MaxRequests
  /\ requests' = requests + 1
  /\ IF level \in CantoneseLevels
     THEN LET call == updateUserCantoneseLevelCall(pool, db, userProfiles,
                                                   userId, level)
          IN  userProfiles' = call.profiles /\ db' = call.db
     ELSE UNCHANGED <<userProfiles, db>>
  /\ UNCHANGED <<userRecords, shareRecords, userStats, userAchievements,
                 now, idsGenerated, scorerVars, evaluateVars,
                 handlerVars, pool, levelSet>>

\* the clock advances to a later instant
Tick(instant) ==
  /\ instant > now
  /\ now' = instant
  /\ UNCHANGED <<storeVars, idsGenerated, requests, scorerVars,
                 evaluateVars, handlerVars, auxVars>>

\* ------------------------------------------------------------------------
\* POST /api/evaluate
\* ------------------------------------------------------------------------
NoRequest == [file |-> FALSE, state |-> "none"]
NoHttp == [endpoint |-> "none"]
\* the tables start empty, and no query is waiting for its result
EmptyDb ==
  [user_profiles |-> EmptyMap, learning_records |-> <<>>, inFlight |-> {}]
NoResponse == [status |-> 0]

\* an uploaded audio file or none, and req.body.originalText ('' when absent)
EvaluateRequests ==
  { [file |-> FALSE, originalText |-> Text_NiHao],
    [file |-> TRUE, originalText |-> <<>>],
    [file |-> TRUE, originalText |-> Text_NiHao] }

\* what recognizeCantoneseSpeech resolves to: a non-empty text with a
\* confidence between 0.5 and 1.0 (0.95 without segments)
Recognitions ==
  { [text |-> Text_NiHao, confidence |-> <<19, 20>>],
    [text |-> <<22909>>, confidence |-> <<1, 2>>] }

\* the handler up to the await of recognizeCantoneseSpeech
EvaluateReceive(req) ==
  /\ requests < MaxRequests
  /\ requests' = requests + 1
  /\ pending = NoRequest
  /\ IF ~req.file \/ req.originalText = <<>>
     THEN /\ response' = [status |-> 400, success |-> FALSE]
          /\ UNCHANGED pending
     ELSE /\ pending' = [file |-> TRUE, state |-> "recognizing",
                         originalText |-> req.originalText]
          /\ UNCHANGED response
  /\ UNCHANGED <<scorerVars, firstReport, storeVars, now, idsGenerated,
                 handlerVars, auxVars>>

\* recognizeCantoneseSpeech throws: the catch block answers 500
EvaluateRecognizerFails ==
  /\ pending # NoRequest
  /\ pending' = NoRequest
  /\ response' = [status |-> 500, success |-> FALSE]
  /\ UNCHANGED <<scorerVars, firstReport, storeVars, counterVars,
                 handlerVars, auxVars>>

\* recognizeCantoneseSpeech resolves: the score is calculated and sent
EvaluateScore(recognized) ==
  /\ pending # NoRequest
  /\ pending' = NoRequest
  /\ LET args == <<pending.originalText, recognized.text,
                   recognized.confidence>>
         scoreData == calculatePronunciationScore(args[1], args[2], args[3])
     IN  /\ originalText' = args[1]
         /\ userText' = args[2]
         /\ confidence' = args[3]
         /\ report' = scoreData
         /\ firstReport' =
              IF args \in DOMAIN firstReport
              THEN [firstReport EXCEPT ![args].lastAt = now]
              ELSE MapSet(firstReport, args,
                          [report |-> scoreData, at |-> now, lastAt |-> now])
         /\ response' = [status |-> 200, success |-> TRUE,
                         data |-> scoreData]
  /\ UNCHANGED <<storeVars, counterVars, handlerVars, auxVars>>

\* ------------------------------------------------------------------------
\* The server
\* ------------------------------------------------------------------------
InitServer ==
  /\ pending = NoRequest
  /\ response = NoResponse
  /\ firstReport = EmptyMap
  /\ userRecords = EmptyMap
  /\ shareRecords = EmptyMap
  /\ userStats = EmptyMap
  /\ userAchievements = EmptyMap
  /\ userProfiles = EmptyMap
  /\ now = 0
  /\ idsGenerated = 0
  /\ requests = 0

\* no connection pool: every store is in memory
InitMemoryOnly ==
  /\ pool = FALSE
  /\ db = EmptyDb
  /\ levelSet = EmptyMap

Init ==
  /\ originalText = <<>>
  /\ userText = <<>>
  /\ confidence = <<0, 1>>
  /\ report = NoReport
  /\ InitServer
  /\ InitMemoryOnly
  /\ http = NoHttp

Next ==
  \/ \E req \in EvaluateRequests : EvaluateReceive(req)
  \/ EvaluateRecognizerFails
  \/ \E recognized \in Recognitions : EvaluateScore(recognized)
  \/ \E u \in Users : saveRecord(u)
  \/ \E u \in Users, id \in 1..(idsGenerated + 1) : deleteRecord(u, id)
  \/ createShareRecord
  \/ \E id \in 1..(idsGenerated + 1) : getShareRecord(id)
  \/ \E u \in Users, data \in StatsUpdates : updateUserStats(u, data)
  \/ \E u \in Users : getUserProfile(u)
  \/ \E u \in Users, level \in RequestedLevels :
       updateUserCantoneseLevel(u, level)
  \/ \E instant \in Instants : Tick(instant)

Spec == Init /\ [][Next]_vars

\* ------------------------------------------------------------------------
\* The scorer applied to one input
\* ------------------------------------------------------------------------
InitScore ==
  /\ \E p \in TextPairs : originalText = p[1] /\ userText = p[2]
  /\ confidence \in Confidences
  /\ report = NoReport
  /\ InitServer
  /\ InitMemoryOnly
  /\ http = NoHttp

Score ==
  /\ report = NoReport
  /\ report' = calculatePronunciationScore(originalText, userText, confidence)
  /\ UNCHANGED <<originalText, userText, confidence, evaluateVars,
                 storeVars, counterVars, handlerVars, auxVars>>

NextScore == Score

SpecScore == InitScore /\ [][NextScore]_vars

\* ------------------------------------------------------------------------
\* recognizeCantoneseSpeech: the reply of the speech service turned into a
\* text and a confidence
\* ------------------------------------------------------------------------
\* WhiteSpace and LineTerminator code units, which String.prototype.trim
\* removes at both ends
IsWhiteSpace(c) ==
  \/ c \in {9, 10, 11, 12, 13, 32, 160, 5760, 8232, 8233, 8239, 8287,
            12288, 65279}
  \/ c \in 8192..8202

RECURSIVE TrimStart(_)
TrimStart(text) ==
  IF text # <<>> /\ IsWhiteSpace(Head(text))
  THEN TrimStart(Tail(text)) ELSE text

RECURSIVE TrimEnd(_)
TrimEnd(text) ==
  IF text # <<>> /\ IsWhiteSpace(text[Len(text)])
  THEN TrimEnd(SubSeq(text, 1, Len(text) - 1)) ELSE text

trim(text) == TrimEnd(TrimStart(text))

\* seg.avg_logprob || 0
LogprobOrZero(seg) == IF seg.defined THEN seg.avg_logprob ELSE RInt(0)

RECURSIVE SumLogprobs(_)
SumLogprobs(segments) ==
  IF segments = <<>> THEN RInt(0)
  ELSE RAdd(SumLogprobs(SubSeq(segments, 1, Len(segments) - 1)),
            LogprobOrZero(segments[Len(segments)]))

DefaultConfidence == <<19, 20>>

\* the confidence without its bounds
SegmentConfidenceUnclamped(segments) ==
  IF segments = <<>> THEN DefaultConfidence
  ELSE RMul(RAdd(RMul(SumLogprobs(segments), Rat(1, Len(segments))),
                 RInt(2)),
            Rat(1, 4))
SegmentConfidence(segments) ==
  IF segments = <<>> THEN DefaultConfidence
  ELSE LET avgProbability ==
             RMul(SumLogprobs(segments), Rat(1, Len(segments)))
       IN  RMax(Rat(1, 2),
                RMin(RInt(1), RMul(RAdd(avgProbability, RInt(2)), Rat(1, 4))))

\* a reply is a failure of the call (network error, timeout, error status)
\* or a body with an optional text and a list of segments ([] when absent)
recognizeCantoneseSpeech(reply) ==
  IF reply.failed
  THEN [threw |-> TRUE,
        message |-> <<"Failed to recognize speech", "Request failed">>]
  ELSE LET text == IF reply.hasText THEN trim(reply.text) ELSE <<>>
       IN  IF text = <<>>
           THEN [threw |-> TRUE,
                 message |-> <<"Failed to recognize speech",
                               "Empty response from Whisper API">>]
           ELSE [threw |-> FALSE, text |-> text,
                 confidence |-> SegmentConfidence(reply.segments)]

\* ------------------------------------------------------------------------
\* POST /api/evaluate followed from the request to its response
\* ------------------------------------------------------------------------
\* req.body.originalText ('' when absent)
EvaluateTexts == {<<>>, Text_NiHao, Text_Abc1, Text_WoXiangSikFaan}

Segment(logprob) == [defined |-> TRUE, avg_logprob |-> logprob]
SegmentLists ==
  { <<>>,
    <<Segment(Rat(-1, 5))>>,
    <<Segment(Rat(8, 5))>>,
    <<Segment(RInt(3))>>,
    <<[defined |-> FALSE], Segment(RInt(-3))>>,
    <<Segment(Rat(8, 5)), Segment(RInt(2))>> }

\* " nei hou\n", with white space at both ends, and white space alone
Text_PaddedNiHao == <<32, 20320, 22909, 10>>
Text_Blank == <<32, 10>>

WhisperReplies ==
  {[failed |-> TRUE]}
    \cup {[failed |-> FALSE, hasText |-> FALSE, segments |-> <<>>]}
    \cup [failed : {FALSE}, hasText : {TRUE},
          text : {<<>>, Text_Blank, Text_PaddedNiHao, Text_NiHao, Text_Ab,
                  Text_WoXiangSikMin},
          segments : SegmentLists]

NoData == [score |-> -1000]

\* the state of the handler when the request arrives
EvaluateArrived(file, text, reply) ==
  [endpoint |-> "evaluate", file |-> file, originalText |-> text,
   reply |-> reply, pc |-> "received", recognizerCalls |-> 0,
   scorerCalls |-> 0, status |-> 0, success |-> FALSE, error |-> <<>>,
   data |-> NoData]

\* the same handler validating originalText only after the recognition
PostEvaluateLateValidation ==
  /\ http.endpoint = "evaluate" /\ http.pc = "received"
  /\ IF ~http.file
     THEN http' = [http EXCEPT !.pc = "done", !.status = 400,
                               !.success = FALSE,
                               !.error = <<"No audio file provided">>]
     ELSE http' = [http EXCEPT !.pc = "recognizing",
                               !.recognizerCalls = @ + 1]
  /\ UNCHANGED <<scorerVars, evaluateVars, storeVars, counterVars, auxVars>>
\* the validation, up to the await of recognizeCantoneseSpeech
PostEvaluate ==
  /\ http.endpoint = "evaluate" /\ http.pc = "received"
  /\ IF ~http.file
     THEN http' = [http EXCEPT !.pc = "done", !.status = 400,
                               !.success = FALSE,
                               !.error = <<"No audio file provided">>]
     ELSE IF http.originalText = <<>>
     THEN http' = [http EXCEPT !.pc = "done", !.status = 400,
                               !.success = FALSE,
                               !.error = <<"Missing originalText">>]
     ELSE http' = [http EXCEPT !.pc = "recognizing",
                               !.recognizerCalls = @ + 1]
  /\ UNCHANGED <<scorerVars, evaluateVars, storeVars, counterVars, auxVars>>

\* the same step calling the recognizer a second time before giving up
PostEvaluateRecognizerRetried ==
  /\ http.endpoint = "evaluate" /\ http.pc = "recognizing"
  /\ LET recognized == recognizeCantoneseSpeech(http.reply)
     IN  /\ recognized.threw
         /\ IF http.recognizerCalls < 2
            THEN http' = [http EXCEPT !.recognizerCalls = @ + 1]
            ELSE http' = [http EXCEPT !.pc = "done", !.status = 500,
                                      !.success = FALSE,
                                      !.error = recognized.message]
  /\ UNCHANGED <<scorerVars, evaluateVars, storeVars, counterVars, auxVars>>
\* recognizeCantoneseSpeech throws: the catch block answers 500
PostEvaluateRecognizerThrew ==
  /\ http.endpoint = "evaluate" /\ http.pc = "recognizing"
  /\ LET recognized == recognizeCantoneseSpeech(http.reply)
     IN  /\ recognized.threw
         /\ http' = [http EXCEPT !.pc = "done", !.status = 500,
                                   !.success = FALSE,
                                   !.error = recognized.message]
  /\ UNCHANGED <<scorerVars, evaluateVars, storeVars, counterVars, auxVars>>

\* recognizeCantoneseSpeech resolves: the score is calculated and sent
PostEvaluateScored ==
  /\ http.endpoint = "evaluate" /\ http.pc = "recognizing"
  /\ LET recognized == recognizeCantoneseSpeech(http.reply)
     IN  /\ ~recognized.threw
         /\ LET scoreData ==
                  calculatePronunciationScore(http.originalText,
                                              recognized.text,
                                              recognized.confidence)
            IN  http' =
                  [http EXCEPT
                     !.pc = "done", !.status = 200, !.success = TRUE,
                     !.scorerCalls = @ + 1,
                     !.data =
                       [originalText |-> http.originalText,
                        userText |-> recognized.text,
                        score |-> scoreData.score,
                        accuracy |-> scoreData.accuracy,
                        fluency |-> scoreData.fluency,
                        toneAccuracy |-> scoreData.toneAccuracy,
                        similarity |-> scoreData.similarity,
                        confidence |-> scoreData.confidence,
                        encouragement |-> scoreData.encouragement]]
  /\ UNCHANGED <<scorerVars, evaluateVars, storeVars, counterVars, auxVars>>

InitEvaluate ==
  /\ originalText = <<>>
  /\ userText = <<>>
  /\ confidence = <<0, 1>>
  /\ report = NoReport
  /\ InitServer
  /\ InitMemoryOnly
  /\ \E file \in BOOLEAN, text \in EvaluateTexts, reply \in WhisperReplies :
       http = EvaluateArrived(file, text, reply)

NextEvaluate ==
  \/ PostEvaluate
  \/ PostEvaluateRecognizerThrew
  \/ PostEvaluateScored

SpecEvaluate == InitEvaluate /\ [][NextEvaluate]_vars

\* ------------------------------------------------------------------------
\* POST /api/generate followed from the request to its response, next to
\* the requests that read and set the profile of a user
\* ------------------------------------------------------------------------
\* req.body.userId when the request carries none
NoUser == ""
\* req.body.cantoneseLevel when the request carries none
NoLevel == ""

CombinedError ==
  <<"Failed to generate Cantonese story", "Fallback also failed">>
SpeechError == <<"Failed to synthesize speech">>

\* a new request arrives once the one before it is answered
GenerateArrives(file, userId) ==
  /\ requests < MaxRequests
  /\ requests' = requests + 1
  /\ IF http.endpoint = "none" THEN TRUE ELSE http.pc = "done"
  /\ http' = [endpoint |-> "generate", file |-> file, userId |-> userId,
              pc |-> "received", primary |-> "none", fallback |-> "none",
              primaryCalls |-> 0, fallbackCalls |-> 0, speechCalls |-> 0,
              levelUsed |-> Undefined, status |-> 0, success |-> FALSE,
              error |-> <<>>, userLevel |-> Undefined,
              story |-> "none",
              \* the level a PUT had set for the user before this request
              levelSetBefore |-> Field(levelSet, userId)]
  /\ UNCHANGED <<scorerVars, evaluateVars, storeVars, now, idsGenerated,
                 auxVars>>

\* the validation and the level of the user, up to the await of
\* generateBilingualText(req.file.buffer, userLevel)
PostGenerate ==
  /\ http.endpoint = "generate" /\ http.pc = "received"
  /\ IF ~http.file
     THEN /\ http' = [http EXCEPT !.pc = "done", !.status = 400,
                                  !.success = FALSE,
                                  !.error = <<"No image file provided">>]
          /\ UNCHANGED <<userProfiles, db>>
     ELSE IF http.userId = NoUser
     THEN /\ http' = [http EXCEPT !.pc = "primary", !.primaryCalls = @ + 1,
                                  !.userLevel = "beginner",
                                  !.levelUsed = "beginner"]
          /\ UNCHANGED <<userProfiles, db>>
     ELSE LET call == getUserProfileCall(pool, db, userProfiles,
                                         http.userId)
              userLevel ==
                OrElse(Field(call.result, "cantonese_level"), "beginner")
          IN  /\ userProfiles' = call.profiles
              /\ db' = call.db
              /\ http' = [http EXCEPT !.pc = "primary",
                                      !.primaryCalls = @ + 1,
                                      !.userLevel = userLevel,
                                      !.levelUsed = userLevel]
  /\ UNCHANGED <<scorerVars, evaluateVars, userRecords, shareRecords,
                 userStats, userAchievements, counterVars, pool, levelSet>>

\* generateBilingualText resolves: the speech is synthesized next
PostGeneratePrimaryResolved ==
  /\ http.endpoint = "generate" /\ http.pc = "primary"
  /\ http' = [http EXCEPT !.pc = "speech", !.primary = "resolved",
                          !.story = "primary", !.speechCalls = @ + 1]
  /\ UNCHANGED <<scorerVars, evaluateVars, storeVars, counterVars, auxVars>>

\* the same step calling the fallback although the primary resolved
PostGeneratePrimaryIgnored ==
  /\ http.endpoint = "generate" /\ http.pc = "primary"
  /\ http' = [http EXCEPT !.pc = "fallback", !.primary = "resolved",
                          !.fallbackCalls = @ + 1]
  /\ UNCHANGED <<scorerVars, evaluateVars, storeVars, counterVars, auxVars>>
\* generateBilingualText throws: generateCantoneseStoryWithFallback is
\* called
PostGeneratePrimaryThrew ==
  /\ http.endpoint = "generate" /\ http.pc = "primary"
  /\ http' = [http EXCEPT !.pc = "fallback", !.primary = "threw",
                          !.fallbackCalls = @ + 1]
  /\ UNCHANGED <<scorerVars, evaluateVars, storeVars, counterVars, auxVars>>

\* the fallback resolves: its text is parsed and the speech is synthesized
PostGenerateFallbackResolved ==
  /\ http.endpoint = "generate" /\ http.pc = "fallback"
  /\ http' = [http EXCEPT !.pc = "speech", !.fallback = "resolved",
                          !.story = "fallback", !.speechCalls = @ + 1]
  /\ UNCHANGED <<scorerVars, evaluateVars, storeVars, counterVars, auxVars>>

\* the fallback throws too: the outer catch answers 500 with both messages
PostGenerateFallbackThrew ==
  /\ http.endpoint = "generate" /\ http.pc = "fallback"
  /\ http' = [http EXCEPT !.pc = "done", !.fallback = "threw",
                          !.status = 500, !.success = FALSE,
                          !.error = CombinedError]
  /\ UNCHANGED <<scorerVars, evaluateVars, storeVars, counterVars, auxVars>>

\* synthesizeCantoneseSpeech resolves: the story is sent with userLevel
PostGenerateSpeechResolved ==
  /\ http.endpoint = "generate" /\ http.pc = "speech"
  /\ http' = [http EXCEPT !.pc = "done", !.status = 200, !.success = TRUE]
  /\ UNCHANGED <<scorerVars, evaluateVars, storeVars, counterVars, auxVars>>

\* synthesizeCantoneseSpeech throws: the outer catch answers 500
PostGenerateSpeechThrew ==
  /\ http.endpoint = "generate" /\ http.pc = "speech"
  /\ http' = [http EXCEPT !.pc = "done", !.status = 500, !.success = FALSE,
                          !.error = SpeechError]
  /\ UNCHANGED <<scorerVars, evaluateVars, storeVars, counterVars, auxVars>>

\* PUT /api/user/profile: the level is recorded as set when the answer is
\* 200; without a level, or without a row to update, the response reads a
\* property of undefined and the catch block answers 500
PutUserProfileStores(userId, cantoneseLevel) ==
  /\ requests < MaxRequests
  /\ requests' = requests + 1
  /\ IF \/ userId = NoUser
        \/ cantoneseLevel = NoLevel
        \/ cantoneseLevel \notin CantoneseLevels
     THEN UNCHANGED <<userProfiles, db, levelSet>>
     ELSE LET call == updateUserCantoneseLevelCall(pool, db, userProfiles,
                                                   userId, cantoneseLevel)
          IN  /\ userProfiles' = call.profiles
              /\ db' = call.db
              /\ levelSet' = IF IsUndefined(call.result) THEN levelSet
                             ELSE MapSet(levelSet, userId, cantoneseLevel)
  /\ UNCHANGED <<scorerVars, evaluateVars, userRecords, shareRecords,
                 userStats, userAchievements, now, idsGenerated, pool>>

\* the handler next to a request of POST /api/generate that is followed
PutUserProfile(userId, cantoneseLevel) ==
  PutUserProfileStores(userId, cantoneseLevel) /\ UNCHANGED handlerVars

\* the response of PUT /api/user/profile: 400 for a missing userId and for
\* a level that is given and not defined, 500 when updatedProfile is
\* undefined (no level given, or no row updated), 200 otherwise
PutUserProfileResponse(userId, cantoneseLevel) ==
  LET answer(status) ==
        [endpoint |-> "PUT /api/user/profile", userId |-> userId,
         cantoneseLevel |-> cantoneseLevel, status |-> status,
         success |-> status = 200]
      call == updateUserCantoneseLevelCall(pool, db, userProfiles, userId,
                                           cantoneseLevel)
  IN  IF userId = NoUser THEN answer(400)
      ELSE IF cantoneseLevel # NoLevel
                /\ cantoneseLevel \notin CantoneseLevels
      THEN answer(400)
      ELSE IF cantoneseLevel = NoLevel THEN answer(500)
      ELSE IF IsUndefined(call.result) THEN answer(500)
      ELSE answer(200)
             @@ [data |->
                   [userId |-> OrElse(Field(call.result, "user_id"),
                                      Field(call.result, "userId")),
                    cantoneseLevel |->
                      OrElse(Field(call.result, "cantonese_level"),
                             Field(call.result, "cantoneseLevel"))]]

\* the handler with its response
PutUserProfileAnswered(userId, cantoneseLevel) ==
  /\ PutUserProfileStores(userId, cantoneseLevel)
  /\ http' = PutUserProfileResponse(userId, cantoneseLevel)

GenerateUsers == Users \cup {NoUser}
PutLevels == {NoLevel, "intermediate", "advanced", "native"}

InitGenerate ==
  /\ originalText = <<>>
  /\ userText = <<>>
  /\ confidence = <<0, 1>>
  /\ report = NoReport
  /\ InitServer
  /\ pool \in BOOLEAN
  /\ db = EmptyDb
  /\ levelSet = EmptyMap
  /\ http = NoHttp

NextGenerate ==
  \/ \E file \in BOOLEAN, u \in GenerateUsers : GenerateArrives(file, u)
  \/ PostGenerate
  \/ PostGeneratePrimaryResolved
  \/ PostGeneratePrimaryThrew
  \/ PostGenerateFallbackResolved
  \/ PostGenerateFallbackThrew
  \/ PostGenerateSpeechResolved
  \/ PostGenerateSpeechThrew
  \/ \E u \in GenerateUsers, level \in PutLevels : PutUserProfile(u, level)
  \/ \E u \in Users : getUserProfile(u)

SpecGenerate == InitGenerate /\ [][NextGenerate]_vars

\* ------------------------------------------------------------------------
\* PUT /api/user/profile next to GET /api/user/profile, which creates the
\* profile of a user
\* ------------------------------------------------------------------------
InitProfile == InitGenerate

NextProfile ==
  \/ \E u \in GenerateUsers, level \in PutLevels :
       PutUserProfileAnswered(u, level)
  \/ \E u \in Users : getUserProfile(u)

SpecProfile == InitProfile /\ [][NextProfile]_vars

\* ------------------------------------------------------------------------
\* POST /api/save, GET /api/history and DELETE /api/history/:id. The
\* handlers call the async saveRecord, getUserHistory and deleteRecord (the
\* later declarations of these names) without await: what they hold is a
\* promise, and with a pool the function goes on after the response
\* ------------------------------------------------------------------------
\* record.id and record.timestamp read on a promise, records.length read
\* on a promise, and req.query.limit when absent
NoId == 0
NoTimestamp == -1
NoCount == -1
NoLimit == -1
DefaultLimit == 20

UserList(records, userId) ==
  IF userId \in DOMAIN records THEN records[userId] ELSE <<>>

\* unshift without the pop
UnshiftedWithoutPop(records, userId, record) ==
  MapSet(records, userId, <<record>> \o UserList(records, userId))
\* unshift, and pop beyond 100 records
Unshifted(records, userId, record) ==
  LET added == <<record>> \o UserList(records, userId)
  IN  MapSet(records, userId,
             IF Len(added) > MaxRecordsPerUser
             THEN SubSeq(added, 1, Len(added) - 1) ELSE added)

\* findIndex and splice; a user without a list keeps none
Spliced(records, userId, recordId) ==
  IF \E r \in Range(UserList(records, userId)) : r.id = recordId
  THEN MapSet(records, userId,
              SelectSeq(records[userId], LAMBDA r : r.id # recordId))
  ELSE records

HistoryResponse(endpoint, userId, status, data) ==
  [endpoint |-> endpoint, userId |-> userId, status |-> status,
   success |-> status = 200, data |-> data]

\* POST /api/save
PostSave(userId, complete) ==
  /\ requests < MaxRequests
  /\ requests' = requests + 1
  /\ IF userId = NoUser \/ ~complete
     THEN /\ http' = HistoryResponse("save", userId, 400, <<>>)
          /\ UNCHANGED <<userRecords, db, idsGenerated>>
     ELSE LET record == [id |-> idsGenerated + 1, userId |-> userId,
                         timestamp |-> now]
          IN  /\ idsGenerated' = idsGenerated + 1
              /\ IF pool
                 THEN /\ db' = [db EXCEPT !.inFlight =
                                  @ \cup {[op |-> "insert",
                                           record |-> record]}]
                      /\ UNCHANGED userRecords
                 ELSE /\ userRecords' =
                           Unshifted(userRecords, userId, record)
                      /\ UNCHANGED db
              /\ http' = HistoryResponse("save", userId, 200,
                           [id |-> NoId, timestamp |-> NoTimestamp])
  /\ UNCHANGED <<scorerVars, evaluateVars, shareRecords, userStats,
                 userAchievements, userProfiles, now, pool, levelSet>>

\* GET /api/history: the promise has no length and is sent as {}
GetHistory(userId, limit) ==
  /\ requests < MaxRequests
  /\ requests' = requests + 1
  /\ http' = IF userId = NoUser
             THEN HistoryResponse("history", userId, 400, <<>>)
             ELSE HistoryResponse("history", userId, 200,
                                  [count |-> NoCount, records |-> <<>>])
                    @@ [limit |-> limit]
  /\ UNCHANGED <<scorerVars, evaluateVars, storeVars, now, idsGenerated,
                 auxVars>>

\* DELETE /api/history/:id: a promise is never falsy
DeleteHistory(userId, id) ==
  /\ requests < MaxRequests
  /\ requests' = requests + 1
  /\ IF userId = NoUser
     THEN /\ http' = HistoryResponse("delete", userId, 400, <<>>)
                       @@ [id |-> id]
          /\ UNCHANGED <<userRecords, db>>
     ELSE /\ http' = HistoryResponse("delete", userId, 200,
                                     <<"Record deleted successfully">>)
                       @@ [id |-> id]
          /\ IF pool
             THEN /\ db' = [db EXCEPT !.inFlight =
                              @ \cup {[op |-> "delete", userId |-> userId,
                                       id |-> id]}]
                  /\ UNCHANGED userRecords
             ELSE /\ userRecords' = Spliced(userRecords, userId, id)
                  /\ UNCHANGED db
  /\ UNCHANGED <<scorerVars, evaluateVars, shareRecords, userStats,
                 userAchievements, userProfiles, now, idsGenerated, pool,
                 levelSet>>

\* the database answers a query: saveRecord takes the id and the timestamp
\* of the new row and goes on to the in-memory list
DbQueryResolved(query) ==
  /\ query \in db.inFlight
  /\ IF query.op = "insert"
     THEN LET row == [id |-> idsGenerated + 1,
                      user_id |-> query.record.userId, timestamp |-> now]
              record == [query.record EXCEPT !.id = row.id,
                                             !.timestamp = row.timestamp]
          IN  /\ idsGenerated' = idsGenerated + 1
              /\ db' = [db EXCEPT !.inFlight = @ \ {query},
                                  !.learning_records = Append(@, row)]
              /\ userRecords' =
                   Unshifted(userRecords, record.userId, record)
     ELSE /\ db' = [db EXCEPT
                      !.inFlight = @ \ {query},
                      !.learning_records =
                        SelectSeq(@, LAMBDA row :
                                       ~(row.id = query.id
                                         /\ row.user_id = query.userId))]
          /\ UNCHANGED <<userRecords, idsGenerated>>
  /\ UNCHANGED <<scorerVars, evaluateVars, shareRecords, userStats,
                 userAchievements, userProfiles, now, requests,
                 handlerVars, pool, levelSet>>

\* the query fails: the catch block falls through to the in-memory store
DbQueryFailed(query) ==
  /\ query \in db.inFlight
  /\ db' = [db EXCEPT !.inFlight = @ \ {query}]
  /\ userRecords' =
       IF query.op = "insert"
       THEN Unshifted(userRecords, query.record.userId, query.record)
       ELSE Spliced(userRecords, query.userId, query.id)
  /\ UNCHANGED <<scorerVars, evaluateVars, shareRecords, userStats,
                 userAchievements, userProfiles, counterVars,
                 handlerVars, pool, levelSet>>

HistoryLimits == {NoLimit, 1, 2}

InitHistory ==
  /\ originalText = <<>>
  /\ userText = <<>>
  /\ confidence = <<0, 1>>
  /\ report = NoReport
  /\ InitServer
  /\ pool \in BOOLEAN
  /\ db = EmptyDb
  /\ levelSet = EmptyMap
  /\ http = NoHttp

NextHistory ==
  \/ \E u \in GenerateUsers, complete \in BOOLEAN : PostSave(u, complete)
  \/ \E u \in GenerateUsers, limit \in HistoryLimits : GetHistory(u, limit)
  \/ \E u \in GenerateUsers, id \in 1..(idsGenerated + 1) :
       DeleteHistory(u, id)
  \/ \E query \in db.inFlight : DbQueryResolved(query)
  \/ \E query \in db.inFlight : DbQueryFailed(query)
  \/ \E instant \in Instants : Tick(instant)

SpecHistory == InitHistory /\ [][NextHistory]_vars

\* ------------------------------------------------------------------------
\* POST /api/share and GET /api/share/:id
\* ------------------------------------------------------------------------
PostShare(complete) ==
  /\ requests < MaxRequests
  /\ requests' = requests + 1
  /\ IF ~complete
     THEN /\ http' = [endpoint |-> "share", status |-> 400,
                      success |-> FALSE, data |-> <<>>]
          /\ UNCHANGED <<shareRecords, idsGenerated>>
     ELSE LET shareRecord ==
                [shareId |-> idsGenerated + 1, createdAt |-> now,
                 expiresAt |-> now + ShareLifetime]
          IN  /\ idsGenerated' = idsGenerated + 1
              /\ shareRecords' =
                   MapSet(shareRecords, shareRecord.shareId, shareRecord)
              /\ http' = [endpoint |-> "share", status |-> 200,
                          success |-> TRUE,
                          data |-> [shareId |-> shareRecord.shareId,
                                    expiresAt |-> shareRecord.expiresAt]]
  /\ UNCHANGED <<scorerVars, evaluateVars, userRecords, userStats,
                 userAchievements, userProfiles, now, auxVars>>

\* the same handler treating the instant expiresAt as expired already
GetShareExpiredAtExpiry(id) ==
  /\ requests < MaxRequests
  /\ requests' = requests + 1
  /\ IF id \notin DOMAIN shareRecords
     THEN /\ http' = [endpoint |-> "getShare", id |-> id, status |-> 404,
                      success |-> FALSE, data |-> <<>>]
          /\ UNCHANGED shareRecords
     ELSE IF shareRecords[id].expiresAt <= now
     THEN /\ http' = [endpoint |-> "getShare", id |-> id, status |-> 404,
                      success |-> FALSE, data |-> <<>>]
          /\ shareRecords' = MapDelete(shareRecords, id)
     ELSE /\ http' = [endpoint |-> "getShare", id |-> id, status |-> 200,
                      success |-> TRUE,
                      data |-> [createdAt |-> shareRecords[id].createdAt,
                                expiresAt |-> shareRecords[id].expiresAt]]
          /\ UNCHANGED shareRecords
  /\ UNCHANGED <<scorerVars, evaluateVars, userRecords, userStats,
                 userAchievements, userProfiles, now, idsGenerated,
                 auxVars>>
\* GET /api/share/:id: getShareRecord gives null for an unknown id and for
\* an expired record, which it deletes
GetShare(id) ==
  /\ requests < MaxRequests
  /\ requests' = requests + 1
  /\ IF id \notin DOMAIN shareRecords
     THEN /\ http' = [endpoint |-> "getShare", id |-> id, status |-> 404,
                      success |-> FALSE, data |-> <<>>]
          /\ UNCHANGED shareRecords
     ELSE IF shareRecords[id].expiresAt < now
     THEN /\ http' = [endpoint |-> "getShare", id |-> id, status |-> 404,
                      success |-> FALSE, data |-> <<>>]
          /\ shareRecords' = MapDelete(shareRecords, id)
     ELSE /\ http' = [endpoint |-> "getShare", id |-> id, status |-> 200,
                      success |-> TRUE,
                      data |-> [createdAt |-> shareRecords[id].createdAt,
                                expiresAt |-> shareRecords[id].expiresAt]]
          /\ UNCHANGED shareRecords
  /\ UNCHANGED <<scorerVars, evaluateVars, userRecords, userStats,
                 userAchievements, userProfiles, now, idsGenerated,
                 auxVars>>

InitShare ==
  /\ originalText = <<>>
  /\ userText = <<>>
  /\ confidence = <<0, 1>>
  /\ report = NoReport
  /\ InitServer
  /\ InitMemoryOnly
  /\ http = NoHttp

NextShare ==
  \/ \E complete \in BOOLEAN : PostShare(complete)
  \/ \E id \in 1..(idsGenerated + 1) : GetShare(id)
  \/ \E instant \in Instants : Tick(instant)

SpecShare == InitShare /\ [][NextShare]_vars

\* ------------------------------------------------------------------------
\* updateUserStats from statistics that earlier updates have built
\* ------------------------------------------------------------------------
Unlocked(key, at) == [key |-> key, id |-> AchievementId(key),
                      unlockedAt |-> at]

StatsAfter(stories, practices, eachScore) ==
  [totalStories |-> stories, practiceCount |-> practices,
   bestScore |-> IF practices > 0 THEN eachScore ELSE 0,
   totalScore |-> practices * eachScore,
   totalStudyTime |-> stories + practices, lastUpdated |-> 0]

\* the statistics and the achievements of a user after 9 stories, after 49
\* stories, after 99 practices scored 80 and after 99 practices scored 90
\* (excellent_student since the first of them)
StatsScenarios ==
  { [stats |-> StatsAfter(9, 0, 0),
     achievements |-> <<Unlocked("first_story", 0)>>],
    [stats |-> StatsAfter(49, 0, 0),
     achievements |-> <<Unlocked("first_story", 0),
                        Unlocked("ten_stories", 0)>>],
    [stats |-> StatsAfter(0, 99, 80), achievements |-> <<>>],
    [stats |-> StatsAfter(0, 99, 90),
     achievements |-> <<Unlocked("excellent_student", 0)>>] }

\* practices scored 89, 90 and 100 next to the updates of StatsUpdates
ScoredPractices ==
  {[isPractice |-> TRUE, practiceTime |-> 1, score |-> sc] :
     sc \in {89, 90, 100}}

InitStats ==
  /\ originalText = <<>>
  /\ userText = <<>>
  /\ confidence = <<0, 1>>
  /\ report = NoReport
  /\ pending = NoRequest
  /\ response = NoResponse
  /\ firstReport = EmptyMap
  /\ userRecords = EmptyMap
  /\ shareRecords = EmptyMap
  /\ userProfiles = EmptyMap
  /\ now = 0
  /\ idsGenerated = 0
  /\ requests = 0
  /\ InitMemoryOnly
  /\ http = NoHttp
  /\ \/ userStats = EmptyMap /\ userAchievements = EmptyMap
     \/ \E scenario \in StatsScenarios :
          /\ userStats = MapSet(EmptyMap, "u1", scenario.stats)
          /\ userAchievements =
               MapSet(EmptyMap, "u1", scenario.achievements)

\* the updates that are followed from the statistics of the start
MaxUpdates == 2

NextStats ==
  \/ \E u \in Users, data \in StatsUpdates \cup ScoredPractices :
       requests < MaxUpdates /\ updateUserStats(u, data)
  \/ \E instant \in Instants : Tick(instant)

SpecStats == InitStats /\ [][NextStats]_vars

\* ------------------------------------------------------------------------
\* POST /api/user/stats and GET /api/achievements
\* ------------------------------------------------------------------------
\* unlockedAt of an achievement that is not unlocked (null)
Null == -1

\* unlocked.find(a => a.id === achievement.id)?.unlockedAt || null
RECURSIVE FindUnlockedAt(_, _, _)
FindUnlockedAt(unlocked, id, i) ==
  IF i > Len(unlocked) THEN Null
  ELSE IF unlocked[i].id = id THEN unlocked[i].unlockedAt
  ELSE FindUnlockedAt(unlocked, id, i + 1)

\* getUserAchievements on the map achievements
getUserAchievements(achievements, userId) ==
  IF userId \notin DOMAIN achievements THEN <<>>
  ELSE LET unlocked == achievements[userId]
           unlockedIds == {a.id : a \in Range(unlocked)}
       IN  [i \in 1..Len(AchievementKeys) |->
              [key |-> AchievementKeys[i],
               id |-> AchievementId(AchievementKeys[i]),
               unlocked |-> AchievementId(AchievementKeys[i]) \in unlockedIds,
               unlockedAt |->
                 FindUnlockedAt(unlocked,
                                AchievementId(AchievementKeys[i]), 1)]]

\* new Date(a.unlockedAt) > new Date(lastUpdated); new Date(null) is the
\* epoch, which no instant of the clock precedes
DateAfter(unlockedAt, lastUpdated) ==
  IF unlockedAt = Null THEN FALSE ELSE unlockedAt > lastUpdated

\* req.body of POST /api/user/stats: each field may be absent, and
\* practiceTime may be 0
StatsBodies ==
  { [practiceTime |-> 0],
    [isPractice |-> FALSE, practiceTime |-> 5],
    [isPractice |-> TRUE],
    [isPractice |-> TRUE, score |-> 100] }

\* { score, practiceTime: practiceTime || 1, isPractice: isPractice || false }
StatsData(body) ==
  LET given == [isPractice |-> IF "isPractice" \in DOMAIN body
                              THEN body.isPractice ELSE FALSE,
                practiceTime |-> IF "practiceTime" \in DOMAIN body
                                 THEN IF body.practiceTime = 0
                                      THEN 1 ELSE body.practiceTime
                                 ELSE 1]
  IN  IF "score" \in DOMAIN body
      THEN [isPractice |-> given.isPractice,
            practiceTime |-> given.practiceTime, score |-> body.score]
      ELSE given

\* the message of the response: the number of new achievements announced,
\* or 'Statistics updated successfully'
StatsMessage(count) ==
  IF count > 0 THEN [text |-> "unlocked", count |-> count]
  ELSE [text |-> "Statistics updated successfully"]

PostUserStats(userId, body) ==
  /\ requests < MaxRequests
  /\ requests' = requests + 1
  /\ IF userId = NoUser
     THEN /\ http' = [endpoint |-> "POST /api/user/stats",
                      userId |-> userId, status |-> 400,
                      success |-> FALSE]
          /\ UNCHANGED <<userStats, userAchievements, now>>
     ELSE \E unlockedAt \in ClockReads :
            LET updatedStats == UpdatedStats(userId, StatsData(body))
                unlockedNow ==
                  checkAndUnlockAchievements(userId, updatedStats,
                                             unlockedAt)
                achievements == getUserAchievements(unlockedNow, userId)
                newAchievements ==
                  SelectSeq(achievements,
                            LAMBDA a :
                              a.unlocked
                                /\ DateAfter(a.unlockedAt,
                                             updatedStats.lastUpdated))
            IN  /\ userStats' = MapSet(userStats, userId, updatedStats)
                /\ userAchievements' = unlockedNow
                /\ now' = unlockedAt
                /\ http' =
                     [endpoint |-> "POST /api/user/stats",
                      userId |-> userId, status |-> 200,
                      success |-> TRUE,
                      data |->
                        [stats |-> updatedStats,
                         newAchievements |-> newAchievements,
                         message |->
                           StatsMessage(Len(newAchievements))]]
  /\ UNCHANGED <<userRecords, shareRecords, userProfiles, idsGenerated,
                 scorerVars, evaluateVars, auxVars>>

\* achievements.filter(a => !a.unlocked).slice(0, 3)
NextToUnlock(achievements) ==
  LET locked == SelectSeq(achievements, LAMBDA a : ~a.unlocked)
  IN  SubSeq(locked, 1, IMin(3, Len(locked)))

\* Math.round((unlockedCount / totalCount) * 100): 0 / 0 is NaN
NotANumber == "NaN"
Progress(unlockedCount, totalCount) ==
  IF totalCount = 0 THEN NotANumber
  ELSE MathRound(Rat(unlockedCount * 100, totalCount))

\* GET /api/achievements; getUserStats creates the statistics of a user
\* who has none
GetAchievements(userId) ==
  /\ requests < MaxRequests
  /\ requests' = requests + 1
  /\ IF userId = NoUser
     THEN /\ http' = [endpoint |-> "GET /api/achievements",
                      userId |-> userId, status |-> 400,
                      success |-> FALSE]
          /\ UNCHANGED userStats
     ELSE LET achievements == getUserAchievements(userAchievements, userId)
              unlockedCount ==
                Len(SelectSeq(achievements, LAMBDA a : a.unlocked))
              totalCount == Len(achievements)
          IN  /\ userStats' = MapSet(userStats, userId, StatsOf(userId))
              /\ http' =
                   [endpoint |-> "GET /api/achievements",
                    userId |-> userId, status |-> 200, success |-> TRUE,
                    data |->
                      [total |-> totalCount, unlocked |-> unlockedCount,
                       progress |-> Progress(unlockedCount, totalCount),
                       achievements |-> achievements,
                       nextAchievements |-> NextToUnlock(achievements)]]
  /\ UNCHANGED <<userRecords, shareRecords, userAchievements,
                 userProfiles, now, idsGenerated, scorerVars,
                 evaluateVars, auxVars>>

InitAchievements == InitStats

\* (the clock advances within the calls of POST /api/user/stats)
NextAchievements ==
  \/ \E u \in GenerateUsers, body \in StatsBodies : PostUserStats(u, body)
  \/ \E u \in GenerateUsers : GetAchievements(u)

SpecAchievements == InitAchievements /\ [][NextAchievements]_vars

\* ------------------------------------------------------------------------
\* The store functions called and awaited one after the other on a server
\* with a pool (the variables) and, with the same arguments, on a server
\* without one (http.memory)
\* ------------------------------------------------------------------------
\* what a caller gets from a profile, whichever the names of its properties
ProfileResult(result) ==
  IF IsUndefined(result) THEN NoRow
  ELSE [userId |-> OrElse(Field(result, "user_id"),
                          Field(result, "userId")),
        cantoneseLevel |-> OrElse(Field(result, "cantonese_level"),
                                  Field(result, "cantoneseLevel"))]

\* saveRecord; story stands for the texts of the record, id for the result
\* of generateId and rowId for the id the table gives the new row
saveRecordCall(p, d, records, userId, story, id, rowId, at) ==
  LET record == [id |-> id, userId |-> userId, timestamp |-> at,
                 story |-> story]
  IN  IF p
      THEN LET row == [id |-> rowId, user_id |-> userId,
                       timestamp |-> at, story |-> story]
               stored == [record EXCEPT !.id = rowId]
           IN  [result |-> stored,
                db |-> [d EXCEPT !.learning_records = Append(@, row)],
                records |-> Unshifted(records, userId, stored)]
      ELSE [result |-> record, db |-> d,
            records |-> Unshifted(records, userId, record)]

\* no record comes before a newer one
NewestFirst(records) ==
  \A i, j \in 1..Len(records) :
    i < j => records[i].timestamp >= records[j].timestamp

\* every order of the rows that ORDER BY timestamp DESC allows
NewestFirstOrders(rows) ==
  {order \in [1..Cardinality(rows) -> rows] :
     /\ \A i, j \in DOMAIN order : i # j => order[i] # order[j]
     /\ NewestFirst(order)}

FirstN(seq, n) == SubSeq(seq, 1, IMin(n, Len(seq)))

\* getUserHistory: the results the call may give
getUserHistoryResults(p, d, records, userId, limit) ==
  IF p
  THEN {FirstN(order, limit) :
          order \in NewestFirstOrders(
                      {row \in Range(d.learning_records) :
                         row.user_id = userId})}
  ELSE {FirstN(UserList(records, userId), limit)}

\* deleteRecord: with a pool the row goes and the in-memory list stays
deleteRecordCall(p, d, records, userId, recordId) ==
  IF p
  THEN [result |-> \E row \in Range(d.learning_records) :
                     row.id = recordId /\ row.user_id = userId,
        db |-> [d EXCEPT !.learning_records =
                  SelectSeq(@, LAMBDA row :
                                 ~(row.id = recordId
                                   /\ row.user_id = userId))],
        records |-> records]
  ELSE [result |-> \E r \in Range(UserList(records, userId)) :
                     r.id = recordId,
        db |-> d,
        records |-> Spliced(records, userId, recordId)]

\* the id under which a server holds the record of a story (NoId for none)
RowIdOfStory(d, story) ==
  IF \E row \in Range(d.learning_records) : row.story = story
  THEN (CHOOSE row \in Range(d.learning_records) : row.story = story).id
  ELSE NoId
RecordIdOfStory(records, story) ==
  LET all == UNION {Range(records[u]) : u \in DOMAIN records}
  IN  IF \E r \in all : r.story = story
      THEN (CHOOSE r \in all : r.story = story).id
      ELSE NoId

StoresCalled(memory, call, database, inMemory) ==
  [endpoint |-> "stores", memory |-> memory, call |-> call,
   results |-> [database |-> database, memory |-> inMemory]]

StoresGetUserProfile(userId) ==
  /\ requests < MaxRequests
  /\ requests' = requests + 1
  /\ LET onDb == getUserProfileCall(TRUE, db, userProfiles, userId)
         onMemory == getUserProfileCall(FALSE, EmptyDb,
                                        http.memory.profiles, userId)
     IN  /\ db' = onDb.db
         /\ userProfiles' = onDb.profiles
         /\ http' = StoresCalled(
                      [http.memory EXCEPT !.profiles = onMemory.profiles],
                      <<"getUserProfile", userId>>,
                      ProfileResult(onDb.result),
                      ProfileResult(onMemory.result))
  /\ UNCHANGED <<scorerVars, evaluateVars, userRecords, shareRecords,
                 userStats, userAchievements, now, idsGenerated, pool,
                 levelSet>>

StoresUpdateUserCantoneseLevel(userId, level) ==
  /\ requests < MaxRequests
  /\ requests' = requests + 1
  /\ IF level \notin CantoneseLevels
     THEN /\ http' = StoresCalled(http.memory,
                       <<"updateUserCantoneseLevel", userId, level>>,
                       [threw |-> TRUE], [threw |-> TRUE])
          /\ UNCHANGED <<db, userProfiles>>
     ELSE LET onDb == updateUserCantoneseLevelCall(TRUE, db, userProfiles,
                                                   userId, level)
              onMemory ==
                updateUserCantoneseLevelCall(FALSE, EmptyDb,
                                             http.memory.profiles,
                                             userId, level)
          IN  /\ db' = onDb.db
              /\ userProfiles' = onDb.profiles
              /\ http' = StoresCalled(
                           [http.memory EXCEPT
                              !.profiles = onMemory.profiles],
                           <<"updateUserCantoneseLevel", userId, level>>,
                           ProfileResult(onDb.result),
                           ProfileResult(onMemory.result))
  /\ UNCHANGED <<scorerVars, evaluateVars, userRecords, shareRecords,
                 userStats, userAchievements, now, idsGenerated, pool,
                 levelSet>>

\* the story saved is the one numbered with the call
StoresSaveRecord(userId) ==
  /\ requests < MaxRequests
  /\ requests' = requests + 1
  /\ idsGenerated' = idsGenerated + 2
  /\ LET story == requests + 1
         onDb == saveRecordCall(TRUE, db, userRecords, userId, story,
                                idsGenerated + 1, idsGenerated + 2, now)
         onMemory == saveRecordCall(FALSE, EmptyDb, http.memory.records,
                                    userId, story, idsGenerated + 1,
                                    idsGenerated + 2, now)
     IN  /\ db' = onDb.db
         /\ userRecords' = onDb.records
         /\ http' = StoresCalled(
                      [http.memory EXCEPT !.records = onMemory.records],
                      <<"saveRecord", userId, story>>,
                      [userId |-> onDb.result.userId,
                       story |-> onDb.result.story],
                      [userId |-> onMemory.result.userId,
                       story |-> onMemory.result.story])
  /\ UNCHANGED <<scorerVars, evaluateVars, shareRecords, userStats,
                 userAchievements, userProfiles, now, pool, levelSet>>

StoriesOf(records) == [i \in 1..Len(records) |-> records[i].story]

StoresGetUserHistory(userId, limit) ==
  /\ requests < MaxRequests
  /\ requests' = requests + 1
  /\ \E onDb \in getUserHistoryResults(TRUE, db, userRecords, userId,
                                       limit) :
       \E onMemory \in getUserHistoryResults(FALSE, EmptyDb,
                                             http.memory.records,
                                             userId, limit) :
         http' = StoresCalled(http.memory,
                              <<"getUserHistory", userId, limit>>,
                              [stories |-> StoriesOf(onDb)],
                              [stories |-> StoriesOf(onMemory)])
  /\ UNCHANGED <<scorerVars, evaluateVars, storeVars, now, idsGenerated,
                 auxVars>>

\* each server is asked to delete the record it holds for the story
StoresDeleteRecord(userId, story) ==
  /\ requests < MaxRequests
  /\ requests' = requests + 1
  /\ LET onDb == deleteRecordCall(TRUE, db, userRecords, userId,
                                  RowIdOfStory(db, story))
         onMemory ==
           deleteRecordCall(FALSE, EmptyDb, http.memory.records, userId,
                            RecordIdOfStory(http.memory.records, story))
     IN  /\ db' = onDb.db
         /\ userRecords' = onDb.records
         /\ http' = StoresCalled(
                      [http.memory EXCEPT !.records = onMemory.records],
                      <<"deleteRecord", userId, story>>,
                      [deleted |-> onDb.result],
                      [deleted |-> onMemory.result])
  /\ UNCHANGED <<scorerVars, evaluateVars, shareRecords, userStats,
                 userAchievements, userProfiles, now, idsGenerated, pool,
                 levelSet>>

InitStores ==
  /\ originalText = <<>>
  /\ userText = <<>>
  /\ confidence = <<0, 1>>
  /\ report = NoReport
  /\ InitServer
  /\ pool = TRUE
  /\ db = EmptyDb
  /\ levelSet = EmptyMap
  /\ http = StoresCalled([profiles |-> EmptyMap, records |-> EmptyMap],
                         <<"none">>, NoRow, NoRow)

NextStores ==
  \/ \E u \in Users : StoresGetUserProfile(u)
  \/ \E u \in Users, level \in RequestedLevels :
       StoresUpdateUserCantoneseLevel(u, level)
  \/ \E u \in Users : StoresSaveRecord(u)
  \/ \E u \in Users, limit \in {1, DefaultLimit} :
       StoresGetUserHistory(u, limit)
  \/ \E u \in Users, story \in 1..MaxRequests :
       StoresDeleteRecord(u, story)
  \/ \E instant \in Instants : Tick(instant)

SpecStores == InitStores /\ [][NextStores]_vars

\* ------------------------------------------------------------------------
\* saveRecord and deleteRecord called one after the other on a list that
\* earlier saves have filled
\* ------------------------------------------------------------------------
\* the records of n saves of a user at instant 0, the last one at the head
SavedRecords(userId, n) ==
  [i \in 1..n |->
     [id |-> n + 1 - i, userId |-> userId, timestamp |-> 0,
      story |-> n + 1 - i]]

\* the rows of the table when each of these saves has reached it
SavedRows(userId, n) ==
  [i \in 1..n |-> [id |-> i, user_id |-> userId, timestamp |-> 0,
                   story |-> i]]

\* saveRecord, awaited; failed says that the query threw
RecordsSave(userId, failed) ==
  /\ requests < MaxRequests
  /\ failed => pool
  /\ requests' = requests + 1
  /\ idsGenerated' = idsGenerated + 1
  /\ LET call == saveRecordCall(pool /\ ~failed, db, userRecords, userId,
                                idsGenerated + 1, idsGenerated + 1,
                                idsGenerated + 1, now)
     IN  /\ db' = call.db
         /\ userRecords' = call.records
         /\ http' = [endpoint |-> "saveRecord", userId |-> userId,
                     result |-> call.result]
  /\ UNCHANGED <<scorerVars, evaluateVars, shareRecords, userStats,
                 userAchievements, userProfiles, now, pool, levelSet>>

\* deleteRecord, awaited; failed says that the query threw
RecordsDelete(userId, recordId, failed) ==
  /\ requests < MaxRequests
  /\ failed => pool
  /\ requests' = requests + 1
  /\ LET call == deleteRecordCall(pool /\ ~failed, db, userRecords, userId,
                                  recordId)
     IN  /\ db' = call.db
         /\ userRecords' = call.records
         /\ http' = [endpoint |-> "deleteRecord", userId |-> userId,
                     id |-> recordId, result |-> call.result]
  /\ UNCHANGED <<scorerVars, evaluateVars, shareRecords, userStats,
                 userAchievements, userProfiles, now, idsGenerated, pool,
                 levelSet>>

\* the ids deleteRecord is called with: the oldest and the newest record
\* of the filled list, and an id that no record has
RecordIdsTried == {1, idsGenerated, idsGenerated + 1}

\* the lengths of the list at the start: empty, one below the limit, full
FilledLengths == {0, MaxRecordsPerUser - 1, MaxRecordsPerUser}

InitRecords ==
  /\ originalText = <<>>
  /\ userText = <<>>
  /\ confidence = <<0, 1>>
  /\ report = NoReport
  /\ pending = NoRequest
  /\ response = NoResponse
  /\ firstReport = EmptyMap
  /\ shareRecords = EmptyMap
  /\ userStats = EmptyMap
  /\ userAchievements = EmptyMap
  /\ userProfiles = EmptyMap
  /\ now = 0
  /\ requests = 0
  /\ http = NoHttp
  /\ levelSet = EmptyMap
  /\ pool \in BOOLEAN
  /\ \E n \in FilledLengths :
       /\ idsGenerated = n
       /\ userRecords = IF n = 0 THEN EmptyMap
                        ELSE MapSet(EmptyMap, "u1", SavedRecords("u1", n))
       /\ db = IF pool
               THEN [EmptyDb EXCEPT
                       !.learning_records = SavedRows("u1", n)]
               ELSE EmptyDb

NextRecords ==
  \/ \E u \in Users, failed \in BOOLEAN : RecordsSave(u, failed)
  \/ \E u \in Users, id \in RecordIdsTried, failed \in BOOLEAN :
       RecordsDelete(u, id, failed)
  \/ \E instant \in Instants : Tick(instant)

SpecRecords == InitRecords /\ [][NextRecords]_vars

\* ------------------------------------------------------------------------
\* Quantities of the claims, computed on integers from the inputs
\* ------------------------------------------------------------------------
Returned == report # NoReport

NormOriginal == normalize(originalText)
NormUser == normalize(userText)

\* with L = maxLen, d = the edit distance and confidence = p/q, every
\* intermediate value of the scorer is a multiple of 1/(100*L*q)
ExpL == IF IMax(Len(NormOriginal), Len(NormUser)) = 0
        THEN 1 ELSE IMax(Len(NormOriginal), Len(NormUser))
ExpD == Levenshtein(NormOriginal, NormUser)
ExpP == confidence[1]
ExpQ == confidence[2]

FloorHalfUp(n, d) == (2 * n + d) \div (2 * d)

\* the tone estimate times L*q: clamp(90*(L-d)/L + 10*p/q, 60, 100)
ExpToneTimesLQ ==
  IMin(100 * ExpL * ExpQ,
       IMax(60 * ExpL * ExpQ,
            90 * (ExpL - ExpD) * ExpQ + 10 * ExpP * ExpL))

\* round(60*(L-d)/L + 25*p/q + 0.15*tone)
ExpRoundedScore ==
  FloorHalfUp(6000 * (ExpL - ExpD) * ExpQ + 2500 * ExpP * ExpL
                + 15 * ExpToneTimesLQ,
              100 * ExpL * ExpQ)

Percentages ==
  {report.score, report.fluency, report.toneAccuracy, report.similarity,
   report.confidence}

\* ------------------------------------------------------------------------
\* C1: for every pair of texts and every confidence in [0,1], score,
\* fluency, toneAccuracy, similarity and confidence of the report are all
\* within [0,100]
\* ------------------------------------------------------------------------
Thm_C1_FieldsWithin0To100 ==
  (Returned /\ InUnitInterval(confidence)) => Percentages \subseteq 0..100

\* a report whose texts differ in every position, with a confidence in [0,1]
Wit_C1_DisjointTextsInRange ==
  /\ Returned
  /\ InUnitInterval(confidence)
  /\ Len(NormOriginal) > 0
  /\ ExpD = ExpL
  /\ report.similarity = 0

\* ------------------------------------------------------------------------
\* C2: the returned score is clamp(round(similarityScore*0.6 +
\* confidenceScore*0.25 + toneAccuracy*0.15), 0, 100), an exact half being
\* rounded upward: 21.5 gives 22, and the one-character-in-four difference
\* at confidence 0.9 gives 79
\* ------------------------------------------------------------------------
Thm_C2_ScoreFormula ==
  Returned =>
    /\ report.score = IMax(0, IMin(100, ExpRoundedScore))
    /\ (originalText = Text_NiHao /\ userText = <<>> /\ confidence = <<1, 2>>)
         => report.score = 22
    /\ (originalText = Text_WoXiangSikFaan /\ userText = Text_WoXiangSikMin
          /\ confidence = <<9, 10>>)
         => report.score = 79

\* the weighted sum is exactly 21.5 and the report says 22
Wit_C2_HalfRoundsUp ==
  /\ Returned
  /\ originalText = Text_NiHao /\ userText = <<>> /\ confidence = <<1, 2>>
  /\ 2 * (6000 * (ExpL - ExpD) * ExpQ + 2500 * ExpP * ExpL
            + 15 * ExpToneTimesLQ) = 43 * (100 * ExpL * ExpQ)
  /\ report.score = 22

\* ------------------------------------------------------------------------
\* C3: the accuracy tier follows from the score by the thresholds 90, 75
\* and 60 read top-down, and is exactly one of the four tiers
\* ------------------------------------------------------------------------
Thm_C3_AccuracyTier ==
  Returned =>
    /\ report.accuracy \in {"Excellent", "Good", "Fair", "Poor"}
    /\ report.accuracy = "Excellent" <=> report.score >= 90
    /\ report.accuracy = "Good" <=> (report.score >= 75 /\ report.score < 90)
    /\ report.accuracy = "Fair" <=> (report.score >= 60 /\ report.score < 75)
    /\ report.accuracy = "Poor" <=> report.score < 60

\* a score at the lower edge of 'Good'
Wit_C3_GoodAt75 ==
  Returned /\ report.score \in 75..79 /\ report.accuracy = "Good"

\* ------------------------------------------------------------------------
\* C4: the encouragement pair follows from the score by the five bands
\* 90, 80, 70, 60 read top-down, each with its fixed message, whatever the
\* accuracy tier: a score of 79 is 'Good' with the title of the 70 band
\* ------------------------------------------------------------------------
Thm_C4_EncouragementBands ==
  Returned =>
    /\ report.score >= 90 =>
         report.encouragement =
           [title |-> "hou2 sai1 lei6! (tai bang le)",
            message |-> "fa yin fei chang zi ran, ji xu bao chi."]
    /\ (report.score >= 80 /\ report.score < 90) =>
         report.encouragement =
           [title |-> "m4 co3 wo3! (hen hao)",
            message |-> "fa yin hen biao zhun, zai jie zai li!"]
    /\ (report.score >= 70 /\ report.score < 80) =>
         report.encouragement =
           [title |-> "gwo3 dak1 heoi3! (hai ke yi)",
            message |-> "you xie di fang xu yao lian xi, jia you!"]
    /\ (report.score >= 60 /\ report.score < 70) =>
         report.encouragement =
           [title |-> "gai3 zuk6 nou5 lik6! (zai nu li)",
            message |-> "duo ting duo shuo, yi ding hui you jin bu!"]
    /\ report.score < 60 =>
         report.encouragement =
           [title |-> "cung4 san1 lei4 gwo3! (zai shi shi)",
            message |-> "bu yao qi nei, duo lian xi ji ci!"]
    /\ report.score = 79 =>
         /\ report.accuracy = "Good"
         /\ report.encouragement.title = "gwo3 dak1 heoi3! (hai ke yi)"

\* the documented one-character difference: 79, 'Good', the 70 band
Wit_C4_Score79 ==
  /\ Returned
  /\ originalText = Text_WoXiangSikFaan /\ userText = Text_WoXiangSikMin
  /\ report.score = 79
  /\ report.accuracy = "Good"
  /\ report.encouragement.title = "gwo3 dak1 heoi3! (hai ke yi)"

\* ------------------------------------------------------------------------
\* C5: toneAccuracy is round(clamp(similarityScore*0.9 +
\* confidenceScore*0.1, 60, 100)), hence within [60,100], for every pair of
\* texts and every finite confidence
\* ------------------------------------------------------------------------
Thm_C5_ToneAccuracy ==
  Returned =>
    /\ report.toneAccuracy = FloorHalfUp(ExpToneTimesLQ, ExpL * ExpQ)
    /\ report.toneAccuracy \in 60..100

\* the estimate is below 60 and the floor applies
Wit_C5_FloorApplies ==
  /\ Returned
  /\ 90 * (ExpL - ExpD) * ExpQ + 10 * ExpP * ExpL < 60 * ExpL * ExpQ
  /\ report.toneAccuracy = 60

\* ------------------------------------------------------------------------
\* C6: fluency is min(100, round((score*0.7 + confidenceScore*0.3)*0.95
\* + 5)), score being the rounded composite score (which is the returned
\* score whenever the confidence is in [0,1])
\* ------------------------------------------------------------------------
ExpFluencyFrom(score) ==
  IMin(100, FloorHalfUp(665 * score * ExpQ + 28500 * ExpP + 5000 * ExpQ,
                        1000 * ExpQ))

Thm_C6_Fluency ==
  Returned =>
    /\ report.fluency = ExpFluencyFrom(ExpRoundedScore)
    /\ InUnitInterval(confidence) =>
         report.fluency = ExpFluencyFrom(report.score)

\* a fluency below the cap: 79 and confidence 0.9 give 83
Wit_C6_FluencyBelowCap ==
  /\ Returned
  /\ confidence = <<9, 10>>
  /\ report.score = 79
  /\ report.fluency = 83

\* ------------------------------------------------------------------------
\* C7: every percentage of the report (score, fluency, toneAccuracy,
\* similarity, confidence) is within [0,100] for every finite confidence,
\* also below 0 or above 1
\* ------------------------------------------------------------------------
Cex_C7_AllOutputsClamped ==
  Returned => Percentages \subseteq 0..100

\* ------------------------------------------------------------------------
\* C8: when both texts normalize to the empty string maxLen is 1, the
\* similarity is 100 and a report is returned; when exactly one of them
\* normalizes to the empty string the similarity is 0 and the score is
\* within [0,100]
\* ------------------------------------------------------------------------
Thm_C8_EmptyTexts ==
  Returned =>
    /\ (NormOriginal = <<>> /\ NormUser = <<>>) =>
         /\ MaxLenOf(NormOriginal, NormUser) = 1
         /\ report.similarity = 100
         /\ DOMAIN report = {"score", "accuracy", "fluency", "toneAccuracy",
                             "similarity", "confidence", "encouragement"}
    /\ ((NormOriginal = <<>>) # (NormUser = <<>>)) =>
         /\ report.similarity = 0
         /\ report.score \in 0..100

\* a text of punctuation only against silence
Wit_C8_BothNormalizeToEmpty ==
  /\ Returned
  /\ originalText # <<>> /\ NormOriginal = <<>> /\ NormUser = <<>>
  /\ report.similarity = 100

Thm_C10_NormalizeIdempotent ==
  /\ normalize(normalize(originalText)) = normalize(originalText)
  /\ normalize(normalize(userText)) = normalize(userText)
  /\ Returned =>
       report = calculatePronunciationScore(normalize(originalText),
                                            normalize(userText), confidence)

\* "AbC 1" against "a!b": both texts are changed by normalization, in case
\* and by removal, and the pair is scored
Wit_C10_TextChangedByNormalize ==
  /\ Returned
  /\ originalText = Text_Abc1 /\ NormOriginal = <<97, 98, 99, 49>>
  /\ userText = Text_Ab /\ NormUser = <<97, 98>>
  /\ report.similarity = 50

\* ------------------------------------------------------------------------
\* C11: normalize returns exactly the characters of the text that are, once
\* lowercased, a Latin letter a-z, a digit 0-9 or a CJK ideograph in
\* U+4E00..U+9FA5, in their original order, every other character removed;
\* the empty text gives the empty text
\* ------------------------------------------------------------------------
IsLetterDigitOrIdeograph(c) ==
  \/ 97 <= c /\ c <= 122
  \/ 48 <= c /\ c <= 57
  \/ 19968 <= c /\ c <= 40869

KeptPositions(lowered) ==
  {i \in 1..Len(lowered) : IsLetterDigitOrIdeograph(lowered[i])}

\* out holds the characters at the kept positions, in the order of the
\* positions, and nothing else
IsSelectionOf(out, lowered) ==
  LET K == KeptPositions(lowered)
  IN  /\ Len(out) = Cardinality(K)
      /\ \A i \in K : out[Cardinality({k \in K : k <= i})] = lowered[i]

Thm_C11_NormalizeKeepsLettersDigitsIdeographs ==
  \A text \in {originalText, userText} :
    /\ IsSelectionOf(normalize(text), toLowerCase(text))
    /\ \A i \in 1..Len(normalize(text)) :
         IsLetterDigitOrIdeograph(normalize(text)[i])
    /\ text = <<>> => normalize(text) = <<>>

\* the Kelvin sign lowercases to k and is kept, U+9FA5 is the last
\* ideograph kept and U+9FA6 is removed; "a!b" loses its exclamation mark
Wit_C11_KeptAndRemoved ==
  /\ Returned
  /\ originalText = Text_Kelvin
  /\ NormOriginal = <<107, 105, 40869>>
  /\ userText = Text_Ab
  /\ NormUser = <<97, 98>>

\* ------------------------------------------------------------------------
\* C12: POST /api/evaluate without an audio file or without originalText is
\* answered 400 with success false, and neither the recognizer nor the
\* scorer is called for it
\* ------------------------------------------------------------------------
EvaluateAnswered == http.endpoint = "evaluate" /\ http.pc = "done"

Thm_C12_MissingInputAnswered400 ==
  (~http.file \/ http.originalText = <<>>) =>
    /\ http.recognizerCalls = 0
    /\ http.scorerCalls = 0
    /\ EvaluateAnswered =>
         /\ http.status = 400
         /\ ~http.success
         /\ http.error # <<>>
         /\ http.data = NoData

\* a request with a file and no originalText, whose speech would have been
\* recognized, has been answered
Wit_C12_FileWithoutText ==
  /\ EvaluateAnswered
  /\ http.file /\ http.originalText = <<>>
  /\ ~recognizeCantoneseSpeech(http.reply).threw
  /\ http.status = 400

\* ------------------------------------------------------------------------
\* C13: when the recognizer fails, POST /api/evaluate is answered 500 with
\* success false and an error string; the recognizer has been called
\* exactly once (no retry) and the scorer has not been called
\* ------------------------------------------------------------------------
EvaluateValid == http.file /\ http.originalText # <<>>

Thm_C13_RecognizerFailureAnswered500 ==
  /\ http.recognizerCalls <= 1
  /\ (EvaluateAnswered /\ EvaluateValid
        /\ recognizeCantoneseSpeech(http.reply).threw) =>
       /\ http.status = 500
       /\ ~http.success
       /\ http.error # <<>>
       /\ http.recognizerCalls = 1
       /\ http.scorerCalls = 0
       /\ http.data = NoData

\* the speech service replied with white space only: the recognizer threw
Wit_C13_BlankReply ==
  /\ EvaluateAnswered /\ EvaluateValid
  /\ ~http.reply.failed /\ http.reply.hasText
  /\ http.reply.text = Text_Blank
  /\ http.status = 500
  /\ http.recognizerCalls = 1

\* ------------------------------------------------------------------------
\* C14: POST /api/generate tries the primary bilingual generation first;
\* the fallback generation is called at most once and only after the
\* primary has failed; the combined error is answered only if both fail,
\* and when the primary succeeds the fallback is never called
\* ------------------------------------------------------------------------
Generating == http.endpoint = "generate"

Thm_C14_FallbackOnlyAfterPrimaryFailed ==
  Generating =>
    /\ http.primaryCalls <= 1
    /\ http.fallbackCalls <= 1
    /\ http.fallbackCalls = 1 =>
         http.primaryCalls = 1 /\ http.primary = "threw"
    /\ http.primary = "resolved" => http.fallbackCalls = 0
    /\ http.speechCalls = 1 =>
         http.primary = "resolved" \/ http.fallback = "resolved"
    /\ http.error = CombinedError <=>
         http.primary = "threw" /\ http.fallback = "threw"
    /\ http.error = CombinedError => http.pc = "done" /\ http.status = 500

\* the primary generation failed, the fallback gave the story and the
\* request was answered 200
Wit_C14_FallbackGaveTheStory ==
  /\ Generating /\ http.pc = "done"
  /\ http.primary = "threw" /\ http.fallback = "resolved"
  /\ http.fallbackCalls = 1
  /\ http.story = "fallback"
  /\ http.status = 200

\* ------------------------------------------------------------------------
\* C18: once PUT /api/user/profile has set level L for a userId, every
\* later POST /api/generate carrying that userId generates with level L and
\* returns userLevel = L; a request without userId generates with
\* 'beginner'
\* ------------------------------------------------------------------------
GenerateLevelRead == Generating /\ http.file /\ http.pc # "received"

Cex_C18_GenerateUsesLevelSet ==
  GenerateLevelRead =>
    IF http.userId = NoUser
    THEN http.levelUsed = "beginner" /\ http.userLevel = "beginner"
    ELSE http.levelSetBefore # Undefined =>
           /\ http.levelUsed = http.levelSetBefore
           /\ http.userLevel = http.levelSetBefore

\* ------------------------------------------------------------------------
\* C15: DELETE /api/history/:id for an id that is not in the user's
\* history is answered 404 with success false and removes no record
\* ------------------------------------------------------------------------
\* the history of a user: the rows of the table with a pool, the list of
\* the map without one
StoredRecords(p, d, records, userId) ==
  IF p
  THEN SelectSeq(d.learning_records, LAMBDA row : row.user_id = userId)
  ELSE UserList(records, userId)

StoredIds(p, d, records, userId) ==
  {r.id : r \in Range(StoredRecords(p, d, records, userId))}

HandlerStep(endpoint) ==
  requests' = requests + 1 /\ http'.endpoint = endpoint

Cex_C15_UnknownIdAnswered404 ==
  [][(/\ HandlerStep("delete")
      /\ http'.userId # NoUser
      /\ http'.id \notin StoredIds(pool, db, userRecords, http'.userId))
       => /\ http'.status = 404
          /\ ~http'.success
          /\ userRecords' = userRecords
          /\ db'.learning_records = db.learning_records]_vars

\* ------------------------------------------------------------------------
\* C16: after POST /api/save succeeds for a user, GET /api/history for
\* that user returns the saved records newest first, at most limit of them
\* (20 when limit is absent), with count equal to the number returned; the
\* id and timestamp of the saved record are those of the save response
\* ------------------------------------------------------------------------
\* every record left out is no newer than every record returned
AreTheNewestOf(records, stored) ==
  /\ \A i \in 1..Len(records) :
       \E r \in Range(stored) :
         r.id = records[i].id /\ r.timestamp = records[i].timestamp
  /\ \A r \in Range(stored) :
       (\A i \in 1..Len(records) : records[i].id # r.id) =>
         \A i \in 1..Len(records) : r.timestamp <= records[i].timestamp

Cex_C16_HistoryReturnsSavedRecords ==
  [][/\ (HandlerStep("save") /\ http'.status = 200) =>
          \E r \in Range(StoredRecords(pool', db', userRecords',
                                       http'.userId)) :
            r.id = http'.data.id /\ r.timestamp = http'.data.timestamp
     /\ (HandlerStep("history") /\ http'.status = 200) =>
          LET stored == StoredRecords(pool, db, userRecords, http'.userId)
              limit == IF http'.limit = NoLimit THEN DefaultLimit
                       ELSE http'.limit
              records == http'.data.records
          IN  /\ Len(records) = IMin(limit, Len(stored))
              /\ http'.data.count = Len(records)
              /\ NewestFirst(records)
              /\ AreTheNewestOf(records, stored)]_vars

\* ------------------------------------------------------------------------
\* C17: a share record expires 30 days after its creation: GET
\* /api/share/:id returns it with success up to expiresAt = createdAt + 30
\* days and answers 404 at any later time, after which the record is no
\* longer stored
\* ------------------------------------------------------------------------
ThirtyDays == 30

RoundedAverage(stats) ==
  IF stats.practiceCount = 0 THEN 0
  ELSE FloorHalfUp(stats.totalScore, stats.practiceCount)

ConditionsHolding(stats) ==
  (IF stats.totalStories >= 1 THEN {"first_story"} ELSE {})
    \cup (IF stats.totalStories >= 10 THEN {"ten_stories"} ELSE {})
    \cup (IF stats.totalStories >= 50 THEN {"fifty_stories"} ELSE {})
    \cup (IF stats.practiceCount >= 100 THEN {"practice_master"} ELSE {})
    \cup (IF stats.bestScore = 100 THEN {"perfect_score"} ELSE {})
    \cup (IF RoundedAverage(stats) >= 90
          THEN {"excellent_student"} ELSE {})

UnlockedKeys(achievements, userId) ==
  IF userId \in DOMAIN achievements
  THEN {a.key : a \in Range(achievements[userId])} ELSE {}

\* the users whose statistics the step has updated
UpdatedUsers ==
  {u \in DOMAIN userStats' :
     u \notin DOMAIN userStats \/ userStats'[u] # userStats[u]}

Thm_C20_AchievementsFollowConditions ==
  [][\A u \in UpdatedUsers :
       LET before == UnlockedKeys(userAchievements, u)
           after == UnlockedKeys(userAchievements', u)
           holding == ConditionsHolding(userStats'[u])
       IN  /\ holding \subseteq after
           /\ (after \ before) \subseteq holding
           /\ before \subseteq after
           /\ Len(userAchievements'[u]) = Cardinality(after)]_vars

\* the hundredth practice, without a score, after 99 practices scored 90:
\* practice_master is unlocked, and excellent_student stays unlocked with
\* an average of 89
Wit_C20_HundredthPractice ==
  /\ "u1" \in DOMAIN userStats
  /\ userStats["u1"].practiceCount = 100
  /\ RoundedAverage(userStats["u1"]) = 89
  /\ UnlockedKeys(userAchievements, "u1")
       = {"excellent_student", "practice_master"}

\* ------------------------------------------------------------------------
\* C19: the in-memory store and the relational store are interchangeable:
\* for every sequence of calls of getUserProfile,
\* updateUserCantoneseLevel, saveRecord, getUserHistory and deleteRecord
\* the two give the same results, updateUserCantoneseLevel for a user
\* without a profile included
\* ------------------------------------------------------------------------
Cex_C19_StoresGiveTheSameResults ==
  http.results.database = http.results.memory

\* ------------------------------------------------------------------------
\* C21: the response of POST /api/user/stats lists in newAchievements
\* exactly the achievements that this update has unlocked (unlocked after
\* the call and not before it), and its message announces their number
\* when there is one
\* ------------------------------------------------------------------------
UnlockedByTheStep(userId) ==
  UnlockedKeys(userAchievements', userId)
    \ UnlockedKeys(userAchievements, userId)

Cex_C21_NewAchievementsAreTheUnlocked ==
  [][(HandlerStep("POST /api/user/stats") /\ http'.status = 200) =>
       LET listed == http'.data.newAchievements
           count == Cardinality(UnlockedByTheStep(http'.userId))
       IN  /\ {a.key : a \in Range(listed)}
                = UnlockedByTheStep(http'.userId)
           /\ Len(listed) = count
           /\ count > 0 =>
                /\ http'.data.message.text = "unlocked"
                /\ http'.data.message.count = count]_vars

\* ------------------------------------------------------------------------
\* C22: GET /api/achievements returns for every userId, one that never
\* updated statistics included, all six achievements with their unlock
\* status: total = 6, unlocked = the number of the unlocked ones, and
\* progress = round(unlocked / total * 100), a number of 0..100
\* ------------------------------------------------------------------------
Cex_C22_AllSixWithProgress ==
  (http.endpoint = "GET /api/achievements" /\ http.status = 200) =>
    /\ http.data.total = Len(AchievementKeys)
    /\ Len(http.data.achievements) = Len(AchievementKeys)
    /\ \A i \in 1..Len(AchievementKeys) :
         /\ http.data.achievements[i].key = AchievementKeys[i]
         /\ http.data.achievements[i].unlocked
              = (AchievementKeys[i]
                   \in UnlockedKeys(userAchievements, http.userId))
    /\ http.data.unlocked
         = Cardinality(UnlockedKeys(userAchievements, http.userId))
    /\ http.data.progress
         = FloorHalfUp(http.data.unlocked * 100, Len(AchievementKeys))
    /\ http.data.progress \in 0..100

\* ------------------------------------------------------------------------
\* C23: after any sequence of saveRecord and deleteRecord calls each
\* user's in-memory list holds at most 100 records, newest first; a save
\* on a list of 100 drops exactly the oldest record and keeps the new one
\* at the head
\* ------------------------------------------------------------------------
\* no record is older than the one after it
OrderedNewestFirst(records) ==
  \A i \in 1..(Len(records) - 1) :
    records[i].timestamp >= records[i + 1].timestamp

ListsCappedNewestFirst ==
  \A u \in DOMAIN userRecords :
    /\ Len(userRecords[u]) <= MaxRecordsPerUser
    /\ OrderedNewestFirst(userRecords[u])

SaveOnFullListDropsOldest ==
  (/\ HandlerStep("saveRecord")
   /\ Len(UserList(userRecords, http'.userId)) = MaxRecordsPerUser) =>
    LET before == userRecords[http'.userId]
        after == userRecords'[http'.userId]
    IN  /\ Len(after) = MaxRecordsPerUser
        /\ after[1] = http'.result
        /\ after[1] \notin Range(before)
        /\ SubSeq(after, 2, MaxRecordsPerUser)
             = SubSeq(before, 1, MaxRecordsPerUser - 1)
        /\ \A r \in Range(before) :
             r.timestamp >= before[MaxRecordsPerUser].timestamp

ZeroStats ==
  [totalStories |-> 0, practiceCount |-> 0, bestScore |-> 0,
   totalScore |-> 0, totalStudyTime |-> 0]

CountsOf(stats, userId) ==
  IF userId \in DOMAIN stats
  THEN [field \in DOMAIN ZeroStats |-> stats[userId][field]]
  ELSE ZeroStats

StatsEffect(userId, data) ==
  LET before == CountsOf(userStats, userId)
      after == CountsOf(userStats', userId)
  IN  /\ userId \in DOMAIN userStats'
      /\ IF data.isPractice
         THEN /\ after.practiceCount = before.practiceCount + 1
              /\ after.totalStories = before.totalStories
              /\ IF "score" \in DOMAIN data
                 THEN /\ after.totalScore = before.totalScore + data.score
                      /\ after.bestScore >= before.bestScore
                      /\ after.bestScore >= data.score
                      /\ after.bestScore \in {before.bestScore, data.score}
                 ELSE /\ after.totalScore = before.totalScore
                      /\ after.bestScore = before.bestScore
         ELSE /\ after.totalStories = before.totalStories + 1
              /\ after.practiceCount = before.practiceCount
              /\ after.totalScore = before.totalScore
              /\ after.bestScore = before.bestScore
      /\ after.totalStudyTime = before.totalStudyTime + data.practiceTime
      /\ \A other \in Users \ {userId} :
           /\ other \in DOMAIN userStats' <=> other \in DOMAIN userStats
           /\ other \in DOMAIN userStats =>
                userStats'[other] = userStats[other]

Thm_C24_UpdateUserStatsEffect ==
  [][\A u \in Users, data \in StatsUpdates \cup ScoredPractices :
       updateUserStats(u, data) => StatsEffect(u, data)]_vars

\* u1 after 99 practices scored 90 and one scored 100, u2 after one story
Wit_C24_PracticeAndStory ==
  /\ DOMAIN userStats = {"u1", "u2"}
  /\ CountsOf(userStats, "u1")
       = [totalStories |-> 0, practiceCount |-> 100, bestScore |-> 100,
          totalScore |-> 99 * 90 + 100, totalStudyTime |-> 100]
  /\ CountsOf(userStats, "u2")
       = [totalStories |-> 1, practiceCount |-> 0, bestScore |-> 0,
          totalScore |-> 0, totalStudyTime |-> 1]

\* ------------------------------------------------------------------------
\* C25: every PUT /api/user/profile request is answered 400 (success
\* false, no profile changed) when userId is missing or cantoneseLevel is
\* not one of the defined levels, and with success true otherwise; a
\* request with a userId and no cantoneseLevel is not answered 500
\* ------------------------------------------------------------------------
Cex_C25_PutProfileAnswers400OrSuccess ==
  [][HandlerStep("PUT /api/user/profile") =>
       IF \/ http'.userId = NoUser
          \/ /\ http'.cantoneseLevel # NoLevel
             /\ http'.cantoneseLevel \notin CantoneseLevels
       THEN /\ http'.status = 400
            /\ ~http'.success
            /\ UNCHANGED <<userProfiles, db>>
       ELSE /\ http'.status = 200
            /\ http'.success]_vars

\* ------------------------------------------------------------------------
\* C26: for every upstream response with a non-empty text
\* recognizeCantoneseSpeech returns a confidence of 0.5 to 1.0: 0.95
\* without segments, and otherwise (mean of the segments' avg_logprob + 2)
\* / 4 held within 0.5 and 1.0; so every report of POST /api/evaluate is
\* computed with a confidence of 0.5 to 1.0 and has a score of 22 or more
\* ------------------------------------------------------------------------
RECURSIVE LogprobsFrom(_, _)
LogprobsFrom(segments, i) ==
  IF i > Len(segments) THEN RInt(0)
  ELSE RAdd(IF segments[i].defined THEN segments[i].avg_logprob
            ELSE RInt(0),
            LogprobsFrom(segments, i + 1))

ExpConfidence(segments) ==
  IF Len(segments) = 0 THEN Rat(95, 100)
  ELSE LET mean == RMul(LogprobsFrom(segments, 1), Rat(1, Len(segments)))
           converted == RMul(RAdd(mean, RInt(2)), Rat(1, 4))
       IN  IF RLeq(converted, Rat(1, 2)) THEN Rat(1, 2)
           ELSE IF RLeq(RInt(1), converted) THEN RInt(1)
           ELSE converted

Thm_C26_RecognizerConfidenceWithinHalfAndOne ==
  (http.endpoint = "evaluate"
     /\ ~recognizeCantoneseSpeech(http.reply).threw) =>
    LET recognized == recognizeCantoneseSpeech(http.reply)
    IN  /\ RLeq(Rat(1, 2), recognized.confidence)
        /\ RLeq(recognized.confidence, RInt(1))
        /\ recognized.confidence = ExpConfidence(http.reply.segments)
        /\ http.scorerCalls > 0 =>
             /\ http.data.confidence
                  = FloorHalfUp(100 * recognized.confidence[1],
                                recognized.confidence[2])
             /\ http.data.confidence \in 50..100
             /\ http.data.score >= 22

\* a report for a speech that shares nothing with the original text, from
\* segments whose mean logprob is -1.5: the confidence is held at 0.5 and
\* the score is the lowest one, 22
Wit_C26_LowestScore ==
  /\ http.endpoint = "evaluate"
  /\ http.scorerCalls = 1
  /\ http.status = 200
  /\ http.reply.segments = <<[defined |-> FALSE], Segment(RInt(-3))>>
  /\ recognizeCantoneseSpeech(http.reply).confidence = Rat(1, 2)
  /\ http.data.confidence = 50
  /\ http.data.similarity = 0
  /\ http.data.score = 22

\* ------------------------------------------------------------------------
\* C27: for fixed texts the score and the fluency do not decrease when
\* the confidence grows within [0, 1]; for a fixed confidence a pair of
\* texts with a higher similarity never gets a lower score than a pair
\* with a lower similarity
\* ------------------------------------------------------------------------
SimilarityOfPair(pair) == Similarity(normalize(pair[1]), normalize(pair[2]))

ScoreOfPair(pair) ==
  calculatePronunciationScore(pair[1], pair[2], confidence).score

\* pairs of similarity 0, 1/2, 3/4 and 1 that every pair is compared with
ComparedPairs ==
  { <<Text_Abc1, Text_NiHao>>,
    <<Text_Abc1, Text_Ab>>,
    <<Text_WoXiangSikFaan, Text_WoXiangSikMin>>,
    <<Text_UpperLower, Text_LowerUpper>> }

\* the next confidence of the grid: the steps from each confidence to the
\* next one make every growth within [0, 1]
NextConfidence == RAdd(confidence, Rat(1, ConfDen))

Thm_C27_ScoreMonotone ==
  Returned =>
    /\ (InUnitInterval(confidence) /\ InUnitInterval(NextConfidence)) =>
         LET higher == calculatePronunciationScore(originalText, userText,
                                                   NextConfidence)
         IN  /\ higher.score >= report.score
             /\ higher.fluency >= report.fluency
    /\ LET mine == SimilarityOfPair(<<originalText, userText>>)
       IN  \A pair \in ComparedPairs :
             LET theirs == SimilarityOfPair(pair)
             IN  /\ RLeq(mine, theirs) => ScoreOfPair(pair) >= report.score
                 /\ RLeq(theirs, mine) => ScoreOfPair(pair) <= report.score

\* "AbC 1" read as "a!b" (similarity 1/2) with confidence 0: the score and
\* the fluency are higher with confidence 1, the score is higher for the
\* pair of similarity 3/4 and lower for the pair of similarity 0
Wit_C27_StrictlyHigher ==
  /\ Returned
  /\ originalText = Text_Abc1
  /\ userText = Text_Ab
  /\ confidence = RInt(0)
  /\ calculatePronunciationScore(originalText, userText, RInt(1)).score
       > report.score
  /\ calculatePronunciationScore(originalText, userText, RInt(1)).fluency
       > report.fluency
  /\ SimilarityOfPair(<<originalText, userText>>) = Rat(1, 2)
  /\ ScoreOfPair(<<Text_WoXiangSikFaan, Text_WoXiangSikMin>>) > report.score
  /\ ScoreOfPair(<<Text_Abc1, Text_NiHao>>) < report.score

====
